---- MODULE Spec2Model ----
(***************************************************************************)
(* cloudsift, cmd/scan/scan.go: the multi-account scan orchestrator.       *)
(*                                                                         *)
(* runScan builds one task per (scanner, region, account), hands the      *)
(* batch to the shared worker pool, and every task body registers itself  *)
(* in the progress map, creates a regional session, scans, filters the    *)
(* results against the ignore lists, and appends what is retained to the  *)
(* account's result set under resultsMutex.                               *)
(*                                                                         *)
(* Strings that the code compares with strings.EqualFold (resource ids,   *)
(* resource names, tag keys and values) are sequences of one-character    *)
(* strings, so that case folding is computed and not assumed.  A scanner  *)
(* is represented by its Label(), the only thing runScan reads of it      *)
(* besides calling Scan.                                                   *)
(***************************************************************************)
EXTENDS Integers, Sequences, FiniteSets, Bags, TLC

VARIABLES
    accounts,        \* authenticatedAccounts: sequence of [ID, Name]
    regions,         \* regions: sequence of region names
    scanners,        \* scanners: sequence of scanner labels
    maxWorkers,      \* config.Config.MaxWorkers
    ignoreIDs,       \* config.Config.ScanIgnoreResourceIDs   ([]string)
    ignoreNames,     \* config.Config.ScanIgnoreResourceNames ([]string)
    ignoreTags,      \* config.Config.ScanIgnoreTags          (map[string]string)
    pc,              \* position of runScan
    tasks,           \* tasks: sequence of [account, region, scanner]
    actualTasks,     \* actualTasks counter
    accountResults,  \* accountResults: account ID -> [AccountID, AccountName, Results]
    progress,        \* progressMap.progress: key -> scannerProgress
    resultsMutex,    \* 0 when free, else the index of the task holding it
    metrics,         \* the shared pool's metrics
    finalMetrics,    \* metrics as read by runScan after ExecuteTasks
    written,         \* what the output phase handed to the writer
    ustate,          \* per task: Pending, Running, Succeeded, Failed
    upc,             \* per task: position inside the task body
    results,         \* per task: what scanner.Scan returned
    filteredResults, \* per task: filteredResults
    current,         \* per task: the list read from accountResults under the lock
    uerr,            \* per task: the error the body returned, "" for nil
    filterIn,        \* a result list handed to the filter on its own
    filterOut,       \* what the filter retained of filterIn
    opts,            \* scanOptions: scanners, regions, accounts and the two roles
    invalidScanners, \* invalidScanners: the requested names the registry rejected
    baseSession,     \* baseSession: "" before it exists, "org-role" or "profile"
    accountSource,   \* which listing call filled accounts
    accountSessions, \* accountSessions: account ID -> session
    sessionWarnings, \* the warnings of lines 491 and 504: [account_id, warning]
    runErr,          \* the error runScan returned, "" for nil
    sharedPool,      \* whether worker.InitSharedPool has succeeded
    reporter,        \* whether the progress logger goroutine has been started
    invalidAccounts, \* invalidAccounts: the requested IDs the listing lacks
    rpc,             \* position of the progress logger goroutine
    running,         \* running: the records getRunning handed to the logger
    snapshot,        \* the last progress snapshot the logger emitted
    tick,            \* the last tick the logger served
    progressMutex    \* scannerProgressMap.mutex: 0 when free, else its holder

vars == <<accounts, regions, scanners, maxWorkers, ignoreIDs, ignoreNames,
          ignoreTags, pc, tasks, actualTasks, accountResults, progress,
          resultsMutex, metrics, finalMetrics, written, ustate, upc, results,
          filteredResults, current, uerr, filterIn, filterOut, opts,
          invalidScanners, baseSession, accountSource, accountSessions,
          sessionWarnings, runErr, sharedPool, reporter, invalidAccounts,
          rpc, running, snapshot, tick, progressMutex>>

resolveVars == <<opts, invalidScanners, baseSession, accountSource,
                 accountSessions, sessionWarnings, runErr, sharedPool, reporter,
                 invalidAccounts>>

\* the progress logger's own state
reporterVars == <<rpc, running, snapshot, tick>>

\* the progress map's lock is free between any two calls of its methods
lockVars == <<progressMutex>>

inputVars == <<accounts, regions, scanners, maxWorkers, ignoreIDs, ignoreNames,
               ignoreTags, resolveVars, reporterVars, lockVars>>

unitVars == <<ustate, upc, results, filteredResults, current, uerr>>

filterVars == <<filterIn, filterOut>>

(***************************************************************************)
(* Bounds of the model.                                                    *)
(***************************************************************************)
MaxAccounts == 2
MaxRegions == 2
MaxScanners == 2
MaxTasks == 3
MaxFilterLen == 2

(***************************************************************************)
(* Helpers on sequences.                                                   *)
(***************************************************************************)
SeqsUpTo(S, lo, hi) == UNION {[1..n -> S] : n \in lo..hi}

RECURSIVE SeqToBag(_)
SeqToBag(s) ==
    IF s = <<>> THEN EmptyBag ELSE SetToBag({Head(s)}) (+) SeqToBag(Tail(s))

Max(a, b) == IF a >= b THEN a ELSE b

(***************************************************************************)
(* Input universes.                                                        *)
(***************************************************************************)
AccountListing ==
    << [ID |-> "111111111111", Name |-> "prod"],
       [ID |-> "222222222222", Name |-> "dev"],
       [ID |-> "333333333333", Name |-> "test"],
       [ID |-> "444444444444", Name |-> "lab"] >>

RegionNames == {"us-east-1", "us-west-2"}

ScannerLabels == {"IAM Roles", "IAM Users", "EBS Volumes"}

WorkerChoices == {1, 2}

\* the account lists the resolver can hand over: a non-empty prefix of the listing
AccountLists == {SubSeq(AccountListing, 1, n) : n \in 1..MaxAccounts}

RegionLists == SeqsUpTo(RegionNames, 1, MaxRegions)

ScannerLists == SeqsUpTo(ScannerLabels, 0, MaxScanners)

\* the requests whose batches are executed: a global and a regional scanner,
\* alone and together, a scanner named twice, one and two regions
RunRegionLists == {<<"us-west-2">>, <<"us-east-1", "us-west-2">>}

RunScannerLists ==
    { <<>>, <<"IAM Roles">>, <<"EBS Volumes">>,
      <<"IAM Users", "EBS Volumes">>, <<"EBS Volumes", "EBS Volumes">> }

Vol123 == <<"v", "o", "l", "-", "1", "2", "3">>
VOL123 == <<"V", "O", "L", "-", "1", "2", "3">>
Vol456 == <<"v", "o", "l", "-", "4", "5", "6">>
Vol789 == <<"v", "o", "l", "-", "7", "8", "9">>

NoTags == <<>>

NewResult(id, name, tags) ==
    [ResourceID |-> id, ResourceName |-> name, Tags |-> tags, Details |-> <<>>,
     AccountID |-> "", AccountName |-> ""]

\* what a Scan call can return: nothing, or three resources of which the
\* ignore list of the run names the first
ScanOutcomes ==
    { <<>>,
      << NewResult(Vol123, <<"a">>, NoTags),
         NewResult(Vol456, <<"b">>, NoTags),
         NewResult(Vol789, <<"b">>, NoTags) >> }

(***************************************************************************)
(* strings.EqualFold on the alphabet of the model.                         *)
(***************************************************************************)
FoldChar(c) ==
    CASE c = "A" -> "a"
      [] c = "B" -> "b"
      [] c = "V" -> "v"
      [] c = "O" -> "o"
      [] c = "L" -> "l"
      [] c = "E" -> "e"
      [] c = "P" -> "p"
      [] OTHER -> c

\* a comparison that does not fold case
EqualExact(s, t) == s = t

EqualFold(s, t) ==
    /\ Len(s) = Len(t)
    /\ \A k \in 1..Len(s) : FoldChar(s[k]) = FoldChar(t[k])

(***************************************************************************)
(* The result filter, lines 712-773.                                       *)
(***************************************************************************)
IgnoredByID(result, ids) ==
    \E k \in 1..Len(ids) : EqualFold(result.ResourceID, ids[k])

IgnoredByName(result, names) ==
    \E k \in 1..Len(names) : EqualFold(result.ResourceName, names[k])

IgnoredByTag(result, tags) ==
    /\ Cardinality(DOMAIN result.Tags) > 0
    /\ \E ignoreKey \in DOMAIN tags : \E tagKey \in DOMAIN result.Tags :
          /\ EqualFold(tagKey, ignoreKey)
          /\ EqualFold(result.Tags[tagKey], tags[ignoreKey])

\* the name rules nested inside the block of the id rules: they are looked at
\* only when the id list has entries
ShouldIgnoreNested(result, ids, names, tags) ==
    IF IgnoredByID(result, ids) THEN TRUE
    ELSE IF Len(ids) > 0 /\ IgnoredByName(result, names) THEN TRUE
    ELSE IgnoredByTag(result, tags)

ShouldIgnore(result, ids, names, tags) ==
    IF IgnoredByID(result, ids) THEN TRUE
    ELSE IF IgnoredByName(result, names) THEN TRUE
    ELSE IgnoredByTag(result, tags)

RECURSIVE FilterResults(_, _, _, _)
FilterResults(rs, ids, names, tags) ==
    IF rs = <<>> THEN <<>>
    ELSE LET rest == FilterResults(Tail(rs), ids, names, tags)
         IN  IF ShouldIgnore(Head(rs), ids, names, tags)
             THEN rest
             ELSE <<Head(rs)>> \o rest

(***************************************************************************)
(* Task expansion, lines 665-679.                                          *)
(***************************************************************************)
\* only one of the two IAM labels is recognised
isIAMScannerRolesOnly(scanner) == scanner = "IAM Roles"

isIAMScanner(scanner) == scanner = "IAM Roles" \/ scanner = "IAM Users"

\* the IAM exception is missing: every scanner runs in every region
ScanRegionsAll(scanner, regs) == regs

ScanRegions(scanner, regs) ==
    IF isIAMScanner(scanner) THEN <<"us-east-1">> ELSE regs

ExpandAccounts(scanner, region, accts) ==
    [k \in 1..Len(accts) |->
        [account |-> accts[k], region |-> region, scanner |-> scanner]]

\* the two inner loops swapped: accounts outside, regions inside
RECURSIVE ExpandRegionsAccountMajor(_, _, _)
ExpandRegionsAccountMajor(scanner, regs, accts) ==
    IF accts = <<>> THEN <<>>
    ELSE [k \in 1..Len(regs) |->
             [account |-> Head(accts), region |-> regs[k], scanner |-> scanner]]
            \o ExpandRegionsAccountMajor(scanner, regs, Tail(accts))

RECURSIVE ExpandRegions(_, _, _)
ExpandRegions(scanner, regs, accts) ==
    IF regs = <<>> THEN <<>>
    ELSE ExpandAccounts(scanner, Head(regs), accts)
            \o ExpandRegions(scanner, Tail(regs), accts)

RECURSIVE ExpandScanners(_, _, _)
ExpandScanners(scs, regs, accts) ==
    IF scs = <<>> THEN <<>>
    ELSE ExpandRegions(Head(scs), ScanRegions(Head(scs), regs), accts)
            \o ExpandScanners(Tail(scs), regs, accts)

\* lines 555-563
InitAccountResults(accts) ==
    [id \in {accts[k].ID : k \in 1..Len(accts)} |->
        LET a == CHOOSE k \in 1..Len(accts) :
                    /\ accts[k].ID = id
                    /\ \A j \in (k + 1)..Len(accts) : accts[j].ID # id
        IN  [AccountID |-> id, AccountName |-> accts[a].Name, Results |-> <<>>]]

(***************************************************************************)
(* Per-task values of the task body, lines 679-690.                        *)
(***************************************************************************)
\* the label is the region the unit is executed in, for every scanner
LogRegionInternal(t) == t.region

LogRegion(t) == IF isIAMScanner(t.scanner) THEN "global" ELSE t.region

ProgressKey(accountID, region, scanner) ==
    accountID \o ":" \o region \o ":" \o scanner

TaskKey(t) == ProgressKey(t.account.ID, LogRegion(t), t.scanner)

Units == 1..Len(tasks)

Terminal == {"Succeeded", "Failed"}

(***************************************************************************)
(* The progress map, lines 66-103.  Every method holds the map's lock from *)
(* entry to return, so each is one atomic step.                            *)
(***************************************************************************)
startScanner(p, accountID, accountName, region, scanner) ==
    LET key == ProgressKey(accountID, region, scanner)
        prog == [AccountID |-> accountID, AccountName |-> accountName,
                 Region |-> region, Scanner |-> scanner, ResultCount |-> 0]
    IN  [k \in DOMAIN p \cup {key} |-> IF k = key THEN prog ELSE p[k]]

\* the count stored whether or not the key has an entry
updateResultCountCreates(p, accountID, region, scanner, count) ==
    LET key == ProgressKey(accountID, region, scanner)
    IN  [k \in DOMAIN p \cup {key} |->
            IF k = key
            THEN [AccountID |-> accountID, AccountName |-> "",
                  Region |-> region, Scanner |-> scanner,
                  ResultCount |-> count]
            ELSE p[k]]

updateResultCount(p, accountID, region, scanner, count) ==
    LET key == ProgressKey(accountID, region, scanner)
    IN  IF key \in DOMAIN p
        THEN [p EXCEPT ![key].ResultCount = count]
        ELSE p

\* a completion that leaves the entry in the map
completeScannerKeepsEntry(p, accountID, region, scanner) ==
    [k \in DOMAIN p |-> p[k]]

completeScanner(p, accountID, region, scanner) ==
    LET key == ProgressKey(accountID, region, scanner)
    IN  [k \in DOMAIN p \ {key} |-> p[k]]

getRunning(p) == {p[k] : k \in DOMAIN p}

(***************************************************************************)
(* Lines 778-791: account and region are stamped on every retained result. *)
(***************************************************************************)
SetDetail(details, key, value) ==
    [k \in DOMAIN details \cup {key} |-> IF k = key THEN value ELSE details[k]]

Annotate(result, t) ==
    [result EXCEPT
        !.AccountID = t.account.ID,
        !.AccountName = t.account.Name,
        !.Details = SetDetail(result.Details, "region",
                              IF isIAMScanner(t.scanner) THEN "global" ELSE t.region)]

AnnotateAll(rs, t) == [k \in 1..Len(rs) |-> Annotate(rs[k], t)]

\* accountResults[id].Results[label], nil when the key is absent
ResultsOf(ar, id, label) ==
    IF label \in DOMAIN ar[id].Results THEN ar[id].Results[label] ELSE <<>>

SetResults(ar, id, label, list) ==
    [ar EXCEPT ![id].Results =
        [l \in DOMAIN ar[id].Results \cup {label} |->
            IF l = label THEN list ELSE ar[id].Results[l]]]

(***************************************************************************)
(* Initial state: the accounts are authenticated, the regions validated    *)
(* and the scanners resolved (line 555).                                   *)
(***************************************************************************)
NoMetrics ==
    [TotalTasks |-> 0, CompletedTasks |-> 0, FailedTasks |-> 0,
     CurrentWorkers |-> 0, PeakWorkers |-> 0]

ScanIgnoreConfigs ==
    { [ids |-> <<VOL123>>, names |-> <<>>, tags |-> <<>>] }

\* strings.Join(list, ","), a string being a sequence of tokens
RECURSIVE JoinTokens(_)
JoinTokens(list) ==
    IF list = <<>> THEN <<>>
    ELSE IF Len(list) = 1 THEN <<Head(list)>>
    ELSE <<Head(list), ",">> \o JoinTokens(Tail(list))

\* the progress logger at its select (line 604), nothing emitted yet
NoSnapshot == [n |-> 0]

NoTick == [n |-> 0]

ReporterIdle ==
    /\ progressMutex = 0
    /\ rpc = "select"
    /\ running = {}
    /\ snapshot = NoSnapshot
    /\ tick = NoTick

\* the resolver's variables at line 555 of a run with both roles configured
Resolved ==
    /\ opts = [scanners |-> JoinTokens(scanners),
               regions |-> JoinTokens(regions),
               accounts |-> <<>>,
               organizationRole |-> "Role",
               scannerRole |-> "Role"]
    /\ invalidScanners = <<>>
    /\ baseSession = "org-role"
    /\ accountSource = "organization"
    /\ accountSessions =
          [id \in {accounts[k].ID : k \in 1..Len(accounts)} |->
              "scanner-role via org-role"]
    /\ sessionWarnings = <<>>
    /\ runErr = ""
    /\ sharedPool = TRUE
    /\ reporter = TRUE
    /\ invalidAccounts = <<>>
    /\ ReporterIdle

InitRun ==
    /\ pc = "build"
    /\ tasks = <<>>
    /\ actualTasks = 0
    /\ accountResults = <<>>
    /\ progress = <<>>
    /\ resultsMutex = 0
    /\ metrics = NoMetrics
    /\ finalMetrics = NoMetrics
    /\ written = {}
    /\ ustate = <<>>
    /\ upc = <<>>
    /\ results = <<>>
    /\ filteredResults = <<>>
    /\ current = <<>>
    /\ uerr = <<>>
    /\ filterIn = <<>>
    /\ filterOut = <<>>

Init ==
    /\ accounts \in AccountLists
    /\ regions \in RunRegionLists
    /\ scanners \in RunScannerLists
    /\ maxWorkers \in WorkerChoices
    /\ \E c \in ScanIgnoreConfigs :
          /\ ignoreIDs = c.ids
          /\ ignoreNames = c.names
          /\ ignoreTags = c.tags
    /\ InitRun
    /\ Resolved

(***************************************************************************)
(* runScan, lines 555-579 and 665-813: the result map and the task list.   *)
(***************************************************************************)
BuildTasks ==
    /\ pc = "build"
    /\ tasks' = ExpandScanners(scanners, regions, accounts)
    /\ actualTasks' = Len(tasks')
    /\ accountResults' = InitAccountResults(accounts)
    /\ ustate' = [i \in 1..Len(tasks') |-> "Pending"]
    /\ upc' = [i \in 1..Len(tasks') |-> "idle"]
    /\ results' = [i \in 1..Len(tasks') |-> <<>>]
    /\ filteredResults' = [i \in 1..Len(tasks') |-> <<>>]
    /\ current' = [i \in 1..Len(tasks') |-> <<>>]
    /\ uerr' = [i \in 1..Len(tasks') |-> ""]
    /\ pc' = "execute"
    /\ UNCHANGED <<inputVars, progress, resultsMutex, metrics, finalMetrics,
                   written, filterVars>>

(***************************************************************************)
(* The shared worker pool (cloudsift/internal/worker).                     *)
(***************************************************************************)
ExecuteTasks ==
    /\ pc = "execute"
    /\ Len(tasks) <= MaxTasks
    /\ metrics' = [metrics EXCEPT !.TotalTasks = @ + Len(tasks)]
    /\ pc' = "wait"
    /\ UNCHANGED <<inputVars, tasks, actualTasks, accountResults, progress,
                   resultsMutex, finalMetrics, written, unitVars, filterVars>>

\* a pool that starts a task whether or not a worker is free
WorkerStartUnbounded(i) ==
    /\ pc = "wait"
    /\ ustate[i] = "Pending"
    /\ ustate' = [ustate EXCEPT ![i] = "Running"]
    /\ upc' = [upc EXCEPT ![i] = "start"]
    /\ metrics' = [metrics EXCEPT
                      !.CurrentWorkers = @ + 1,
                      !.PeakWorkers = Max(@, metrics.CurrentWorkers + 1)]
    /\ UNCHANGED <<inputVars, pc, tasks, actualTasks, accountResults, progress,
                   resultsMutex, finalMetrics, written, results,
                   filteredResults, current, uerr, filterVars>>

WorkerStart(i) ==
    /\ pc = "wait"
    /\ ustate[i] = "Pending"
    /\ metrics.CurrentWorkers < maxWorkers
    /\ ustate' = [ustate EXCEPT ![i] = "Running"]
    /\ upc' = [upc EXCEPT ![i] = "start"]
    /\ metrics' = [metrics EXCEPT
                      !.CurrentWorkers = @ + 1,
                      !.PeakWorkers = Max(@, metrics.CurrentWorkers + 1)]
    /\ UNCHANGED <<inputVars, pc, tasks, actualTasks, accountResults, progress,
                   resultsMutex, finalMetrics, written, results,
                   filteredResults, current, uerr, filterVars>>

\* a pool that puts a failed task back in its queue
WorkerFinishRetries(i) ==
    /\ ustate[i] = "Running"
    /\ upc[i] = "returned"
    /\ ustate' = [ustate EXCEPT ![i] = IF uerr[i] # "" THEN "Pending" ELSE "Succeeded"]
    /\ upc' = [upc EXCEPT ![i] = "idle"]
    /\ uerr' = [uerr EXCEPT ![i] = ""]
    /\ metrics' = [metrics EXCEPT
                      !.CurrentWorkers = @ - 1,
                      !.CompletedTasks = IF uerr[i] # "" THEN @ ELSE @ + 1]
    /\ UNCHANGED <<inputVars, pc, tasks, actualTasks, accountResults, progress,
                   resultsMutex, finalMetrics, written, results,
                   filteredResults, current, filterVars>>

\* a pool that counts a failed task as completed too
WorkerFinishCountsBoth(i) ==
    /\ ustate[i] = "Running"
    /\ upc[i] = "returned"
    /\ ustate' = [ustate EXCEPT ![i] = IF uerr[i] # "" THEN "Failed" ELSE "Succeeded"]
    /\ upc' = [upc EXCEPT ![i] = "idle"]
    /\ metrics' = [metrics EXCEPT
                      !.CurrentWorkers = @ - 1,
                      !.CompletedTasks = @ + 1,
                      !.FailedTasks = IF uerr[i] # "" THEN @ + 1 ELSE @]
    /\ UNCHANGED <<inputVars, pc, tasks, actualTasks, accountResults, progress,
                   resultsMutex, finalMetrics, written, results,
                   filteredResults, current, uerr, filterVars>>

WorkerFinish(i) ==
    /\ ustate[i] = "Running"
    /\ upc[i] = "returned"
    /\ ustate' = [ustate EXCEPT ![i] = IF uerr[i] # "" THEN "Failed" ELSE "Succeeded"]
    /\ upc' = [upc EXCEPT ![i] = "idle"]
    /\ metrics' = [metrics EXCEPT
                      !.CurrentWorkers = @ - 1,
                      !.CompletedTasks = IF uerr[i] # "" THEN @ ELSE @ + 1,
                      !.FailedTasks = IF uerr[i] # "" THEN @ + 1 ELSE @]
    /\ UNCHANGED <<inputVars, pc, tasks, actualTasks, accountResults, progress,
                   resultsMutex, finalMetrics, written, results,
                   filteredResults, current, uerr, filterVars>>

ExecuteTasksReturn ==
    /\ pc = "wait"
    /\ \A i \in Units : ustate[i] \in Terminal
    /\ pc' = "metrics"
    /\ UNCHANGED <<inputVars, tasks, actualTasks, accountResults, progress,
                   resultsMutex, metrics, finalMetrics, written, unitVars,
                   filterVars>>

(***************************************************************************)
(* The task body, lines 679-810.                                           *)
(***************************************************************************)
UnitFrame ==
    UNCHANGED <<inputVars, pc, tasks, actualTasks, metrics, finalMetrics,
                written, ustate, filterVars>>

\* lines 681-689
StartScanner(i) ==
    /\ ustate[i] = "Running"
    /\ upc[i] = "start"
    /\ progress' = startScanner(progress, tasks[i].account.ID,
                                tasks[i].account.Name, LogRegion(tasks[i]),
                                tasks[i].scanner)
    /\ upc' = [upc EXCEPT ![i] = "session"]
    /\ UnitFrame
    /\ UNCHANGED <<accountResults, resultsMutex, results, filteredResults,
                   current, uerr>>

\* lines 692-700, GetSessionInRegion succeeds
GetSessionOK(i) ==
    /\ ustate[i] = "Running"
    /\ upc[i] = "session"
    /\ upc' = [upc EXCEPT ![i] = "scan"]
    /\ UnitFrame
    /\ UNCHANGED <<accountResults, progress, resultsMutex, results,
                   filteredResults, current, uerr>>

\* lines 694-697, GetSessionInRegion fails
GetSessionFail(i) ==
    /\ ustate[i] = "Running"
    /\ upc[i] = "session"
    /\ uerr' = [uerr EXCEPT ![i] = "failed to create regional session"]
    /\ upc' = [upc EXCEPT ![i] = "defer"]
    /\ UnitFrame
    /\ UNCHANGED <<accountResults, progress, resultsMutex, results,
                   filteredResults, current>>

\* lines 702-773, Scan succeeds and its results are filtered
ScanOK(i) ==
    /\ ustate[i] = "Running"
    /\ upc[i] = "scan"
    /\ \E rs \in ScanOutcomes :
          /\ results' = [results EXCEPT ![i] = rs]
          /\ filteredResults' =
                [filteredResults EXCEPT
                    ![i] = FilterResults(rs, ignoreIDs, ignoreNames, ignoreTags)]
    /\ upc' = [upc EXCEPT ![i] = "update"]
    /\ UnitFrame
    /\ UNCHANGED <<accountResults, progress, resultsMutex, current, uerr>>

\* the Scan error path without the deferred completeScanner
ScanFailNoDefer(i) ==
    /\ ustate[i] = "Running"
    /\ upc[i] = "scan"
    /\ uerr' = [uerr EXCEPT ![i] = "scan error"]
    /\ upc' = [upc EXCEPT ![i] = "returned"]
    /\ UnitFrame
    /\ UNCHANGED <<accountResults, progress, resultsMutex, results,
                   filteredResults, current>>

\* the Scan error path without its return: the body goes on to aggregate
ScanFailFallsThrough(i) ==
    /\ ustate[i] = "Running"
    /\ upc[i] = "scan"
    /\ uerr' = [uerr EXCEPT ![i] = "scan error"]
    /\ upc' = [upc EXCEPT ![i] = "update"]
    /\ UnitFrame
    /\ UNCHANGED <<accountResults, progress, resultsMutex, results,
                   filteredResults, current>>

\* the Scan error path ending the whole run
ScanFailAborts(i) ==
    /\ ustate[i] = "Running"
    /\ upc[i] = "scan"
    /\ uerr' = [uerr EXCEPT ![i] = "scan error"]
    /\ upc' = [upc EXCEPT ![i] = "defer"]
    /\ pc' = "done"
    /\ UNCHANGED <<inputVars, tasks, actualTasks, metrics, finalMetrics,
                   written, ustate, filterVars, accountResults, progress,
                   resultsMutex, results, filteredResults, current>>

\* lines 707-710, Scan fails
ScanFail(i) ==
    /\ ustate[i] = "Running"
    /\ upc[i] = "scan"
    /\ uerr' = [uerr EXCEPT ![i] = "scan error"]
    /\ upc' = [upc EXCEPT ![i] = "defer"]
    /\ UnitFrame
    /\ UNCHANGED <<accountResults, progress, resultsMutex, results,
                   filteredResults, current>>

\* lines 775-791
UpdateResultCount(i) ==
    /\ ustate[i] = "Running"
    /\ upc[i] = "update"
    /\ progress' = updateResultCount(progress, tasks[i].account.ID,
                                     LogRegion(tasks[i]), tasks[i].scanner,
                                     Len(filteredResults[i]))
    /\ filteredResults' =
          [filteredResults EXCEPT ![i] = AnnotateAll(@, tasks[i])]
    /\ upc' = [upc EXCEPT ![i] = "lock"]
    /\ UnitFrame
    /\ UNCHANGED <<accountResults, resultsMutex, results, current, uerr>>

\* the read of the scanner's list without waiting for resultsMutex
LockResultsNoMutex(i) ==
    /\ ustate[i] = "Running"
    /\ upc[i] = "lock"
    /\ resultsMutex' = i
    /\ current' = [current EXCEPT
                      ![i] = ResultsOf(accountResults, tasks[i].account.ID,
                                       tasks[i].scanner)]
    /\ upc' = [upc EXCEPT ![i] = "append"]
    /\ UnitFrame
    /\ UNCHANGED <<accountResults, progress, results, filteredResults, uerr>>

\* lines 794-795: take resultsMutex and read the scanner's list
LockResults(i) ==
    /\ ustate[i] = "Running"
    /\ upc[i] = "lock"
    /\ resultsMutex = 0
    /\ resultsMutex' = i
    /\ current' = [current EXCEPT
                      ![i] = ResultsOf(accountResults, tasks[i].account.ID,
                                       tasks[i].scanner)]
    /\ upc' = [upc EXCEPT ![i] = "append"]
    /\ UnitFrame
    /\ UNCHANGED <<accountResults, progress, results, filteredResults, uerr>>

\* lines 795-800: store or append, release resultsMutex
AppendResults(i) ==
    /\ ustate[i] = "Running"
    /\ upc[i] = "append"
    /\ accountResults' =
          SetResults(accountResults, tasks[i].account.ID, tasks[i].scanner,
                     IF current[i] = <<>>
                     THEN filteredResults[i]
                     ELSE current[i] \o filteredResults[i])
    /\ resultsMutex' = 0
    /\ upc' = [upc EXCEPT ![i] = "defer"]
    /\ UnitFrame
    /\ UNCHANGED <<progress, results, filteredResults, current, uerr>>

\* the deferred call keyed by the region the unit ran in, not by its label
CompleteScannerInternalRegion(i) ==
    /\ ustate[i] = "Running"
    /\ upc[i] = "defer"
    /\ progress' = completeScanner(progress, tasks[i].account.ID,
                                   tasks[i].region, tasks[i].scanner)
    /\ upc' = [upc EXCEPT ![i] = "returned"]
    /\ UnitFrame
    /\ UNCHANGED <<accountResults, resultsMutex, results, filteredResults,
                   current, uerr>>

\* line 689, the deferred completeScanner, run on every return of the body
CompleteScanner(i) ==
    /\ ustate[i] = "Running"
    /\ upc[i] = "defer"
    /\ progress' = completeScanner(progress, tasks[i].account.ID,
                                   LogRegion(tasks[i]), tasks[i].scanner)
    /\ upc' = [upc EXCEPT ![i] = "returned"]
    /\ UnitFrame
    /\ UNCHANGED <<accountResults, resultsMutex, results, filteredResults,
                   current, uerr>>

(***************************************************************************)
(* runScan after the batch, lines 818-927.                                 *)
(***************************************************************************)
\* the metrics read without waiting for ExecuteTasks to return
GetMetricsWithoutWaiting ==
    /\ pc \in {"wait", "metrics"}
    /\ finalMetrics' = metrics
    /\ pc' = "output"
    /\ UNCHANGED <<inputVars, tasks, actualTasks, accountResults, progress,
                   resultsMutex, metrics, written, unitVars, filterVars>>

GetMetrics ==
    /\ pc = "metrics"
    /\ finalMetrics' = metrics
    /\ pc' = "output"
    /\ UNCHANGED <<inputVars, tasks, actualTasks, accountResults, progress,
                   resultsMutex, metrics, written, unitVars, filterVars>>

OutputTypes == {"json", "html", "s3"}

RECURSIVE AllResults(_, _)
AllResults(ar, ids) ==
    IF ids = {} THEN EmptyBag
    ELSE LET id == CHOOSE x \in ids : TRUE
             RECURSIVE PerLabel(_)
             PerLabel(ls) ==
                 IF ls = {} THEN EmptyBag
                 ELSE LET l == CHOOSE x \in ls : TRUE
                      IN  SeqToBag(ar[id].Results[l]) (+) PerLabel(ls \ {l})
         IN  PerLabel(DOMAIN ar[id].Results) (+) AllResults(ar, ids \ {id})

Output(ot) ==
    CASE ot = "json" ->
            {[key |-> id, data |-> accountResults[id]] : id \in DOMAIN accountResults}
      [] ot = "html" ->
            {[key |-> "reports/scan_report.html",
              data |-> AllResults(accountResults, DOMAIN accountResults)]}
      [] ot = "s3" ->
            {[key |-> id,
              data |-> [AccountID |-> id, AccountName |-> accounts[1].Name,
                        Results |-> accountResults[id].Results]]
                : id \in DOMAIN accountResults}

WriteOutput ==
    /\ pc = "output"
    /\ \E ot \in OutputTypes : written' = Output(ot)
    /\ pc' = "done"
    /\ UNCHANGED <<inputVars, tasks, actualTasks, accountResults, progress,
                   resultsMutex, metrics, finalMetrics, unitVars, filterVars>>

Next ==
    \/ BuildTasks
    \/ ExecuteTasks
    \/ \E i \in Units : WorkerStart(i)
    \/ \E i \in Units : StartScanner(i)
    \/ \E i \in Units : GetSessionOK(i)
    \/ \E i \in Units : GetSessionFail(i)
    \/ \E i \in Units : ScanOK(i)
    \/ \E i \in Units : ScanFail(i)
    \/ \E i \in Units : UpdateResultCount(i)
    \/ \E i \in Units : LockResults(i)
    \/ \E i \in Units : AppendResults(i)
    \/ \E i \in Units : CompleteScanner(i)
    \/ \E i \in Units : WorkerFinish(i)
    \/ ExecuteTasksReturn
    \/ GetMetrics
    \/ WriteOutput

Spec == Init /\ [][Next]_vars

(***************************************************************************)
(* Task expansion on its own, over every request within the bounds.        *)
(***************************************************************************)
InitExpand ==
    /\ accounts \in AccountLists
    /\ regions \in RegionLists
    /\ scanners \in ScannerLists
    /\ maxWorkers \in WorkerChoices
    /\ \E c \in ScanIgnoreConfigs :
          /\ ignoreIDs = c.ids
          /\ ignoreNames = c.names
          /\ ignoreTags = c.tags
    /\ InitRun
    /\ Resolved

NextExpand == BuildTasks

SpecExpand == InitExpand /\ [][NextExpand]_vars

(***************************************************************************)
(* runScan before the task list, lines 319-663: output validation, the     *)
(* scanner list, the credential chain, the account list, the per-account   *)
(* sessions, the regions, the shared pool and the progress logger.         *)
(*                                                                         *)
(* A string that the code splits or trims is a sequence of tokens: ","  is *)
(* the separator, " " is white space, and any other token is a run of      *)
(* other characters.  Calls that leave the process (session creation,      *)
(* listings, role assumption, bucket and region validation) succeed or     *)
(* fail as the environment decides.                                        *)
(***************************************************************************)
\* strings.Split(s, ",")
RECURSIVE Split(_)
Split(s) ==
    IF s = <<>> THEN << <<>> >>
    ELSE IF Head(s) = "," THEN << <<>> >> \o Split(Tail(s))
    ELSE LET rest == Split(Tail(s))
         IN  << <<Head(s)>> \o Head(rest) >> \o Tail(rest)

RECURSIVE TrimLeft(_)
TrimLeft(s) ==
    IF s # <<>> /\ Head(s) = " " THEN TrimLeft(Tail(s)) ELSE s

RECURSIVE TrimRight(_)
TrimRight(s) ==
    IF s # <<>> /\ s[Len(s)] = " " THEN TrimRight(SubSeq(s, 1, Len(s) - 1)) ELSE s

\* strings.TrimSpace
TrimSpace(s) == TrimRight(TrimLeft(s))

\* the string a token sequence spells
RECURSIVE Concat(_)
Concat(s) == IF s = <<>> THEN "" ELSE Head(s) \o Concat(Tail(s))

\* awsinternal.DefaultRegistry: ListScanners, and GetScanner by name
RegistryNames == <<"EBS Volumes", "IAM Roles", "IAM Users">>

Registered(name) == \E k \in 1..Len(RegistryNames) : RegistryNames[k] = name

ValidName(piece) == Registered(Concat(piece))

InvalidName(piece) == ~ValidName(piece)

\* the regions GetAvailableRegions returns and ValidateRegions accepts
AvailableRegions == <<"us-east-1", "us-west-2">>

ValidRegion(r) == \E k \in 1..Len(AvailableRegions) : AvailableRegions[k] = r

\* ListAccountsWithSession: the member accounts, none included
OrgListings == {SubSeq(AccountListing, 1, n) : n \in 0..MaxAccounts}

\* ListCurrentAccount
CurrentAccount == <<AccountListing[1]>>

OptScanners ==
    { <<>>, <<"IAM Roles">>, <<"EBS Volumes">>, <<"Bogus">>,
      <<"IAM Users", ",", "EBS Volumes">>,
      <<"EBS Volumes", ",", "EBS Volumes">>,
      <<"EBS Volumes", ",", "Bogus">>,
      <<"EBS Volumes", ",", " ", "IAM Roles">> }

OptRegions ==
    { <<>>, <<"us-west-2">>, <<"us-east-1", ",", "us-west-2">>, <<"mars-1">> }

OptAccounts ==
    { <<>>, <<"999999999999">>, <<"222222222222">>,
      <<" ", "111111111111", ",", "999999999999">> }

OptRoles == {"", "Role"}

BothRoles == opts.organizationRole # "" /\ opts.scannerRole # ""

\* lines 282-317
getScanners(scannerList, registry) ==
    IF scannerList = <<>>
    THEN IF registry = <<>>
         THEN [scanners |-> <<>>, invalidScanners |-> <<>>, err |-> TRUE]
         ELSE [scanners |-> registry, invalidScanners |-> <<>>, err |-> FALSE]
    ELSE LET names == Split(scannerList)
             valid == SelectSeq(names, ValidName)
             invalid == SelectSeq(names, InvalidName)
         IN  [scanners |-> [k \in 1..Len(valid) |-> Concat(valid[k])],
              invalidScanners |-> [k \in 1..Len(invalid) |-> Concat(invalid[k])],
              err |-> FALSE]

\* the requested IDs compared as typed, white space included
RequestedIDsUntrimmed(list) ==
    LET requestedAccounts == Split(list)
    IN  {Concat(requestedAccounts[k]) : k \in 1..Len(requestedAccounts)}

\* lines 443-474: the listed accounts whose ID was requested, in listing order
RequestedIDs(list) ==
    LET requestedAccounts == Split(list)
    IN  {Concat(TrimSpace(requestedAccounts[k])) : k \in 1..Len(requestedAccounts)}

\* lines 450-461: the requested IDs, trimmed, that the listing does not hold
InvalidAccounts(accts, list) ==
    LET requestedAccounts == Split(list)
        listed == {accts[k].ID : k \in 1..Len(accts)}
        Missing(accountID) == Concat(TrimSpace(accountID)) \notin listed
        invalid == SelectSeq(requestedAccounts, Missing)
    IN  [k \in 1..Len(invalid) |-> Concat(TrimSpace(invalid[k]))]

RECURSIVE FilterAccounts(_, _)
FilterAccounts(accts, requested) ==
    IF accts = <<>> THEN <<>>
    ELSE (IF Head(accts).ID \in requested THEN <<Head(accts)>> ELSE <<>>)
            \o FilterAccounts(Tail(accts), requested)

\* lines 484-525 with role chaining: the accounts whose role was assumed and
\* verified, in listing order
RECURSIVE Authenticated(_, _, _)
Authenticated(accts, outcome, k) ==
    IF k > Len(accts) THEN <<>>
    ELSE (IF outcome[k] = "ok" THEN <<accts[k]>> ELSE <<>>)
            \o Authenticated(accts, outcome, k + 1)

\* lines 491-497 and 504-510: one warning per account that is skipped
RECURSIVE Warnings(_, _, _)
Warnings(accts, outcome, k) ==
    IF k > Len(accts) THEN <<>>
    ELSE (IF outcome[k] = "ok" THEN <<>>
          ELSE <<[account_id |-> accts[k].ID, warning |-> outcome[k]]>>)
            \o Warnings(accts, outcome, k + 1)

SessionOutcomes ==
    {"ok", "Failed to assume scanner role",
     "Failed to verify scanner role assumption"}

InitResolve ==
    /\ pc = "start"
    /\ opts \in [scanners : OptScanners, regions : OptRegions,
                 accounts : OptAccounts, organizationRole : OptRoles,
                 scannerRole : OptRoles]
    /\ accounts = <<>>
    /\ regions = <<>>
    /\ scanners = <<>>
    /\ maxWorkers = 2
    /\ \E c \in ScanIgnoreConfigs :
          /\ ignoreIDs = c.ids
          /\ ignoreNames = c.names
          /\ ignoreTags = c.tags
    /\ invalidScanners = <<>>
    /\ baseSession = ""
    /\ accountSource = ""
    /\ accountSessions = <<>>
    /\ sessionWarnings = <<>>
    /\ runErr = ""
    /\ sharedPool = FALSE
    /\ reporter = FALSE
    /\ invalidAccounts = <<>>
    /\ ReporterIdle
    /\ tasks = <<>>
    /\ actualTasks = 0
    /\ accountResults = <<>>
    /\ progress = <<>>
    /\ resultsMutex = 0
    /\ metrics = NoMetrics
    /\ finalMetrics = NoMetrics
    /\ written = {}
    /\ ustate = <<>>
    /\ upc = <<>>
    /\ results = <<>>
    /\ filteredResults = <<>>
    /\ current = <<>>
    /\ uerr = <<>>
    /\ filterIn = <<>>
    /\ filterOut = <<>>

\* what no step of the resolver writes
ResolveFrame ==
    UNCHANGED <<opts, maxWorkers, ignoreIDs, ignoreNames, ignoreTags, tasks,
                actualTasks, accountResults, progress, resultsMutex, metrics,
                finalMetrics, written, unitVars, filterVars, reporterVars,
                lockVars>>

\* runScan returns err: nil ends the run quietly, anything else is an error
Return(err) ==
    /\ pc' = IF err = "" THEN "skipped" ELSE "failed"
    /\ runErr' = err

Continue(next) ==
    /\ pc' = next
    /\ runErr' = runErr

\* lines 320-328
ValidateOutput ==
    /\ pc = "start"
    /\ \E output \in {"filesystem", "s3"}, bucket \in {"", "bucket"},
          access \in BOOLEAN :
          IF output = "s3" /\ bucket = ""
          THEN Return("S3 bucket not specified")
          ELSE IF output = "s3" /\ ~access
          THEN Return("S3 bucket validation failed")
          ELSE Continue("scanners")
    /\ ResolveFrame
    /\ UNCHANGED <<accounts, regions, scanners, invalidScanners, baseSession,
                   accountSource, accountSessions, sharedPool, reporter,
                   sessionWarnings, invalidAccounts>>

\* the scanner step without the return of line 348
GetScannersNeverFatal ==
    /\ pc = "scanners"
    /\ \E registry \in {<<>>, RegistryNames} :
          LET got == getScanners(opts.scanners, registry)
          IN  /\ scanners' = IF got.err THEN <<>> ELSE got.scanners
              /\ invalidScanners' = got.invalidScanners
              /\ Continue("cost")
    /\ ResolveFrame
    /\ UNCHANGED <<accounts, regions, baseSession, accountSource,
                   accountSessions, sharedPool, reporter, sessionWarnings,
                   invalidAccounts>>

\* lines 330-351
GetScanners ==
    /\ pc = "scanners"
    /\ \E registry \in {<<>>, RegistryNames} :
          LET got == getScanners(opts.scanners, registry)
          IN  /\ scanners' = IF got.err THEN <<>> ELSE got.scanners
              /\ invalidScanners' = got.invalidScanners
              /\ IF Len(scanners') = 0 /\ Len(got.invalidScanners) > 0
                 THEN Return("no valid scanners found and invalid scanners specified")
                 ELSE Continue("cost")
    /\ ResolveFrame
    /\ UNCHANGED <<accounts, regions, baseSession, accountSource,
                   accountSessions, sharedPool, reporter, sessionWarnings,
                   invalidAccounts>>

\* the cost estimator step handing its failure to the caller
CostEstimatorReturnsError ==
    /\ pc = "cost"
    /\ \E chain \in BOOLEAN, profile \in BOOLEAN, initialized \in BOOLEAN :
          LET session == IF opts.organizationRole # ""
                         THEN chain \/ profile
                         ELSE profile
          IN  IF session /\ initialized
              THEN Continue("base")
              ELSE Return("failed to create cost estimator session")
    /\ ResolveFrame
    /\ UNCHANGED <<accounts, regions, scanners, invalidScanners, baseSession,
                   accountSource, accountSessions, sharedPool, reporter,
                   sessionWarnings, invalidAccounts>>

\* lines 357-386: the cost estimator's session and its initialisation
CostEstimator ==
    /\ pc = "cost"
    /\ \E chain \in BOOLEAN, profile \in BOOLEAN, initialized \in BOOLEAN :
          LET session == IF opts.organizationRole # ""
                         THEN chain \/ profile
                         ELSE profile
          IN  IF session /\ initialized
              THEN Continue("base")
              ELSE Return("")
    /\ ResolveFrame
    /\ UNCHANGED <<accounts, regions, scanners, invalidScanners, baseSession,
                   accountSource, accountSessions, sharedPool, reporter,
                   sessionWarnings, invalidAccounts>>

\* lines 388-415
BaseSession ==
    /\ pc = "base"
    /\ \E chain \in BOOLEAN, profile \in BOOLEAN :
          IF BothRoles /\ chain
          THEN baseSession' = "org-role" /\ Continue("list")
          ELSE IF profile
          THEN baseSession' = "profile" /\ Continue("list")
          ELSE baseSession' = "" /\ Return("")
    /\ ResolveFrame
    /\ UNCHANGED <<accounts, regions, scanners, invalidScanners,
                   accountSource, accountSessions, sharedPool, reporter,
                   sessionWarnings, invalidAccounts>>

\* the organization listing attempted as soon as an organization role is given
ListAccountsOrgRoleOnly ==
    /\ pc = "list"
    /\ \E listed \in BOOLEAN, org \in OrgListings, found \in BOOLEAN :
          IF opts.organizationRole # "" /\ listed
          THEN /\ accounts' = org
               /\ accountSource' = "organization"
               /\ Continue("select")
          ELSE IF found
          THEN /\ accounts' = CurrentAccount
               /\ accountSource' = "current"
               /\ Continue("select")
          ELSE /\ accounts' = <<>>
               /\ accountSource' = ""
               /\ Return("")
    /\ ResolveFrame
    /\ UNCHANGED <<regions, scanners, invalidScanners, baseSession,
                   accountSessions, sharedPool, reporter, sessionWarnings,
                   invalidAccounts>>

\* lines 417-439
ListAccounts ==
    /\ pc = "list"
    /\ \E listed \in BOOLEAN, org \in OrgListings, found \in BOOLEAN :
          IF BothRoles /\ listed
          THEN /\ accounts' = org
               /\ accountSource' = "organization"
               /\ Continue("select")
          ELSE IF found
          THEN /\ accounts' = CurrentAccount
               /\ accountSource' = "current"
               /\ Continue("select")
          ELSE /\ accounts' = <<>>
               /\ accountSource' = ""
               /\ Return("")
    /\ ResolveFrame
    /\ UNCHANGED <<regions, scanners, invalidScanners, baseSession,
                   accountSessions, sharedPool, reporter, sessionWarnings,
                   invalidAccounts>>

\* the account filter without its return: an empty selection goes on
SelectAccountsNoStop ==
    /\ pc = "select"
    /\ accounts' = IF opts.accounts # <<>>
                   THEN FilterAccounts(accounts, RequestedIDs(opts.accounts))
                   ELSE accounts
    /\ invalidAccounts' = IF opts.accounts # <<>>
                          THEN InvalidAccounts(accounts, opts.accounts)
                          ELSE <<>>
    /\ Continue("sessions")
    /\ ResolveFrame
    /\ UNCHANGED <<regions, scanners, invalidScanners, baseSession,
                   accountSource, accountSessions, sharedPool, reporter,
                   sessionWarnings>>

\* lines 441-479
SelectAccounts ==
    /\ pc = "select"
    /\ IF opts.accounts # <<>>
       THEN /\ invalidAccounts' = InvalidAccounts(accounts, opts.accounts)
            /\ accounts' = FilterAccounts(accounts, RequestedIDs(opts.accounts))
            /\ IF Len(accounts') = 0
               THEN Return("none of the specified accounts exist in the organization")
               ELSE Continue("sessions")
       ELSE /\ invalidAccounts' = <<>>
            /\ accounts' = accounts
            /\ Continue("sessions")
    /\ ResolveFrame
    /\ UNCHANGED <<regions, scanners, invalidScanners, baseSession,
                   accountSource, accountSessions, sharedPool, reporter,
                   sessionWarnings>>

\* the session loop with a return where the code has continue: one account
\* that cannot be entered ends the run
CreateSessionsStopAtFailure ==
    /\ pc = "sessions"
    /\ \E outcome \in [1..Len(accounts) -> SessionOutcomes] :
          LET authenticatedAccounts ==
                 IF BothRoles THEN Authenticated(accounts, outcome, 1)
                 ELSE accounts
              session ==
                 IF BothRoles THEN "scanner-role via " \o baseSession
                 ELSE baseSession
          IN  /\ accountSessions' =
                    [id \in {authenticatedAccounts[k].ID :
                                k \in 1..Len(authenticatedAccounts)} |-> session]
              /\ sessionWarnings' =
                    IF BothRoles THEN Warnings(accounts, outcome, 1) ELSE <<>>
              /\ IF DOMAIN accountSessions' = {} \/ sessionWarnings' # <<>>
                 THEN accounts' = accounts /\ Return("")
                 ELSE accounts' = authenticatedAccounts /\ Continue("regions")
    /\ ResolveFrame
    /\ UNCHANGED <<regions, scanners, invalidScanners, baseSession,
                   accountSource, sharedPool, reporter, invalidAccounts>>

\* the session loop without role chaining: every account reuses baseSession
CreateSessionsReuseBase ==
    /\ pc = "sessions"
    /\ accountSessions' = [id \in {accounts[k].ID : k \in 1..Len(accounts)} |->
                              baseSession]
    /\ sessionWarnings' = <<>>
    /\ IF DOMAIN accountSessions' = {}
       THEN accounts' = accounts /\ Return("")
       ELSE accounts' = accounts /\ Continue("regions")
    /\ ResolveFrame
    /\ UNCHANGED <<regions, scanners, invalidScanners, baseSession,
                   accountSource, sharedPool, reporter, invalidAccounts>>

\* the session loop without line 533: the skipped accounts stay in accounts
CreateSessionsKeepsSkipped ==
    /\ pc = "sessions"
    /\ \E outcome \in [1..Len(accounts) -> SessionOutcomes] :
          LET authenticatedAccounts ==
                 IF BothRoles THEN Authenticated(accounts, outcome, 1)
                 ELSE accounts
              session ==
                 IF BothRoles THEN "scanner-role via " \o baseSession
                 ELSE baseSession
          IN  /\ accountSessions' =
                    [id \in {authenticatedAccounts[k].ID :
                                k \in 1..Len(authenticatedAccounts)} |-> session]
              /\ sessionWarnings' =
                    IF BothRoles THEN Warnings(accounts, outcome, 1) ELSE <<>>
              /\ IF DOMAIN accountSessions' = {}
                 THEN accounts' = accounts /\ Return("")
                 ELSE accounts' = accounts /\ Continue("regions")
    /\ ResolveFrame
    /\ UNCHANGED <<regions, scanners, invalidScanners, baseSession,
                   accountSource, sharedPool, reporter, invalidAccounts>>

\* the session loop with an error return at line 529
CreateSessionsFailsWithNone ==
    /\ pc = "sessions"
    /\ \E outcome \in [1..Len(accounts) -> SessionOutcomes] :
          LET authenticatedAccounts ==
                 IF BothRoles THEN Authenticated(accounts, outcome, 1)
                 ELSE accounts
              session ==
                 IF BothRoles THEN "scanner-role via " \o baseSession
                 ELSE baseSession
          IN  /\ accountSessions' =
                    [id \in {authenticatedAccounts[k].ID :
                                k \in 1..Len(authenticatedAccounts)} |-> session]
              /\ sessionWarnings' =
                    IF BothRoles THEN Warnings(accounts, outcome, 1) ELSE <<>>
              /\ IF DOMAIN accountSessions' = {}
                 THEN accounts' = accounts /\ Return("no valid sessions created")
                 ELSE accounts' = authenticatedAccounts /\ Continue("regions")
    /\ ResolveFrame
    /\ UNCHANGED <<regions, scanners, invalidScanners, baseSession,
                   accountSource, sharedPool, reporter, invalidAccounts>>

\* lines 481-533
CreateSessions ==
    /\ pc = "sessions"
    /\ \E outcome \in [1..Len(accounts) -> SessionOutcomes] :
          LET authenticatedAccounts ==
                 IF BothRoles THEN Authenticated(accounts, outcome, 1)
                 ELSE accounts
              session ==
                 IF BothRoles THEN "scanner-role via " \o baseSession
                 ELSE baseSession
          IN  /\ accountSessions' =
                    [id \in {authenticatedAccounts[k].ID :
                                k \in 1..Len(authenticatedAccounts)} |-> session]
              /\ sessionWarnings' =
                    IF BothRoles THEN Warnings(accounts, outcome, 1) ELSE <<>>
              /\ IF DOMAIN accountSessions' = {}
                 THEN accounts' = accounts /\ Return("")
                 ELSE accounts' = authenticatedAccounts /\ Continue("regions")
    /\ ResolveFrame
    /\ UNCHANGED <<regions, scanners, invalidScanners, baseSession,
                   accountSource, sharedPool, reporter, invalidAccounts>>

\* lines 535-553
GetRegions ==
    /\ pc = "regions"
    /\ \E answered \in BOOLEAN :
          IF opts.regions = <<>>
          THEN IF answered
               THEN regions' = AvailableRegions /\ Continue("pool")
               ELSE regions' = <<>> /\ Return("")
          ELSE LET names == Split(opts.regions)
               IN  /\ regions' = [k \in 1..Len(names) |-> Concat(names[k])]
                   /\ IF answered /\ \A k \in 1..Len(regions') : ValidRegion(regions'[k])
                      THEN Continue("pool")
                      ELSE Return("")
    /\ ResolveFrame
    /\ UNCHANGED <<accounts, scanners, invalidScanners, baseSession,
                   accountSource, accountSessions, sharedPool, reporter,
                   sessionWarnings, invalidAccounts>>

\* lines 571-575
InitSharedPool ==
    /\ pc = "pool"
    /\ \E created \in BOOLEAN :
          IF created
          THEN sharedPool' = TRUE /\ Continue("reporter")
          ELSE sharedPool' = FALSE /\ Return("failed to initialize worker pool")
    /\ ResolveFrame
    /\ UNCHANGED <<accounts, regions, scanners, invalidScanners, baseSession,
                   accountSource, accountSessions, reporter, sessionWarnings,
                   invalidAccounts>>

\* lines 595-663: the progress logger goroutine is started
StartReporter ==
    /\ pc = "reporter"
    /\ reporter' = TRUE
    /\ Continue("build")
    /\ ResolveFrame
    /\ UNCHANGED <<accounts, regions, scanners, invalidScanners, baseSession,
                   accountSource, accountSessions, sharedPool,
                   sessionWarnings, invalidAccounts>>

NextResolve ==
    \/ ValidateOutput
    \/ GetScanners
    \/ CostEstimator
    \/ BaseSession
    \/ ListAccounts
    \/ SelectAccounts
    \/ CreateSessions
    \/ GetRegions
    \/ InitSharedPool
    \/ StartReporter
    \/ BuildTasks
    \/ ExecuteTasks

SpecResolve == InitResolve /\ [][NextResolve]_vars

(***************************************************************************)
(* The result filter on its own, over result lists and rule sets that      *)
(* differ in case, in the rule category that matches and in the number of  *)
(* tags.                                                                   *)
(***************************************************************************)
TagMap(key, value) == [k \in {key} |-> value]

TwoTags ==
    [k \in {<<"e">>, <<"o">>} |-> IF k = <<"e">> THEN <<"q">> ELSE <<"p">>]

FilterResultUniverse ==
    { NewResult(id, name, tags) :
        id \in {Vol123, Vol456},
        name \in {<<"a">>, <<"b">>},
        tags \in {NoTags, TagMap(<<"e">>, <<"p">>), TwoTags} }

FilterIgnoreIDs == {<<>>, <<Vol123>>, <<VOL123>>, <<Vol456, VOL123>>}

FilterIgnoreNames == {<<>>, <<<<"A">>>>}

FilterIgnoreTags ==
    {NoTags, TagMap(<<"E">>, <<"P">>), TagMap(<<"o">>, <<"P">>),
     TagMap(<<"e">>, <<"x">>)}

InitFilter ==
    /\ filterIn \in SeqsUpTo(FilterResultUniverse, 0, MaxFilterLen)
    /\ ignoreIDs \in FilterIgnoreIDs
    /\ ignoreNames \in FilterIgnoreNames
    /\ ignoreTags \in FilterIgnoreTags
    /\ filterOut = <<>>
    /\ pc = "filter"
    /\ accounts = <<>>
    /\ regions = <<>>
    /\ scanners = <<>>
    /\ maxWorkers = 1
    /\ tasks = <<>>
    /\ actualTasks = 0
    /\ accountResults = <<>>
    /\ progress = <<>>
    /\ resultsMutex = 0
    /\ metrics = NoMetrics
    /\ finalMetrics = NoMetrics
    /\ written = {}
    /\ ustate = <<>>
    /\ upc = <<>>
    /\ results = <<>>
    /\ filteredResults = <<>>
    /\ current = <<>>
    /\ uerr = <<>>
    /\ Resolved

\* lines 713-773 applied to filterIn
ApplyFilter ==
    /\ pc = "filter"
    /\ filterOut' = FilterResults(filterIn, ignoreIDs, ignoreNames, ignoreTags)
    /\ pc' = "filtered"
    /\ UNCHANGED <<inputVars, tasks, actualTasks, accountResults, progress,
                   resultsMutex, metrics, finalMetrics, written, unitVars,
                   filterIn>>

NextFilter == ApplyFilter

SpecFilter == InitFilter /\ [][NextFilter]_vars

(***************************************************************************)
(* The progress logger goroutine, lines 595-663, running beside the batch. *)
(*                                                                         *)
(* getRunning hands out pointers to the records of the map (line 100), so  *)
(* what the logger prints of a record is what the record holds when the    *)
(* line is printed, long after getRunning released the map's lock.  The    *)
(* tick is therefore two steps: the select, getRunning and the last-log    *)
(* test (lines 603-612), then the metrics, the sort and the lines (lines   *)
(* 613-659).  Whether a log was written during the last tick interval is   *)
(* the logging package's answer and comes from the environment.            *)
(***************************************************************************)
MaxTicks == 2

\* ctx.Done(): cancel is deferred at line 597 and runScan returns at line 927
Cancelled == pc = "done"

\* the strings the less function compares, in byte order
Collation ==
    <<"111111111111", "222222222222", "333333333333", "444444444444",
      "EBS Volumes", "IAM Roles", "IAM Users">>

StringRank(s) == CHOOSE k \in 1..Len(Collation) : Collation[k] = s

\* lines 625-630
Less(a, b) ==
    IF a.AccountID # b.AccountID
    THEN StringRank(a.AccountID) < StringRank(b.AccountID)
    ELSE StringRank(a.Scanner) < StringRank(b.Scanner)

Orderings(S) ==
    {seq \in [1..Cardinality(S) -> S] :
        \A i, j \in 1..Cardinality(S) : i # j => seq[i] # seq[j]}

\* lines 96-102 and 625: getRunning fills the slice in map iteration order and
\* sort.Slice is not stable, so the entries that Less does not separate can
\* come out in any order
SortOutcomes(S) ==
    {seq \in Orderings(S) :
        \A i, j \in 1..Cardinality(S) : i < j => ~Less(seq[j], seq[i])}

\* the unit that created the record; the runs of the logger's specification
\* name no scanner twice, so it is the only unit with the record's key
OwnerOf(r) ==
    CHOOSE i \in Units :
        TaskKey(tasks[i]) = ProgressKey(r.AccountID, r.Region, r.Scanner)

\* the record behind a pointer of getRunning as it is now, in the map or not
Deref(r) ==
    LET key == ProgressKey(r.AccountID, r.Region, r.Scanner)
    IN  IF key \in DOMAIN progress THEN progress[key]
        ELSE [r EXCEPT !.ResultCount =
                 IF uerr[OwnerOf(r)] = ""
                 THEN Len(filteredResults[OwnerOf(r)])
                 ELSE 0]

\* lines 634-645
ProgressLine(prog) ==
    [Scanner |-> prog.Scanner,
     AccountName |-> prog.AccountName,
     AccountID |-> prog.AccountID,
     region |-> IF prog.Region = "us-east-1" /\ isIAMScanner(prog.Scanner)
                THEN "global" ELSE prog.Region,
     ResultCount |-> prog.ResultCount]

\* the tick without the last-log test: a snapshot whenever units are in flight
ReporterTickIgnoresLastLog ==
    /\ reporter
    /\ rpc = "select"
    /\ tick.n < MaxTicks
    /\ \E recent \in BOOLEAN :
          LET got == getRunning(progress)
              emit == Cardinality(got) > 0
          IN  /\ running' = IF emit THEN got ELSE {}
              /\ rpc' = IF emit THEN "report" ELSE "select"
              /\ tick' = [n |-> tick.n + 1, inflight |-> Cardinality(got),
                          recent |-> recent]
    /\ UNCHANGED <<accounts, regions, scanners, maxWorkers, ignoreIDs,
                   ignoreNames, ignoreTags, resolveVars, snapshot, pc, tasks,
                   actualTasks, accountResults, progress, resultsMutex,
                   metrics, finalMetrics, written, unitVars, filterVars,
                   lockVars>>

\* lines 603-612, the ticker's case of the select
ReporterTick ==
    /\ reporter
    /\ rpc = "select"
    /\ tick.n < MaxTicks
    /\ \E recent \in BOOLEAN :
          LET got == getRunning(progress)
              emit == Cardinality(got) > 0 /\ ~recent
          IN  /\ running' = IF emit THEN got ELSE {}
              /\ rpc' = IF emit THEN "report" ELSE "select"
              /\ tick' = [n |-> tick.n + 1, inflight |-> Cardinality(got),
                          recent |-> recent]
    /\ UNCHANGED <<accounts, regions, scanners, maxWorkers, ignoreIDs,
                   ignoreNames, ignoreTags, resolveVars, snapshot, pc, tasks,
                   actualTasks, accountResults, progress, resultsMutex,
                   metrics, finalMetrics, written, unitVars, filterVars,
                   lockVars>>

\* lines 613-659: the header, the sorted lines and the throughput line
ReporterReport ==
    /\ reporter
    /\ rpc = "report"
    /\ \E order \in SortOutcomes(running) :
          snapshot' =
             [n |-> snapshot.n + 1,
              activeWorkers |-> metrics.CurrentWorkers,
              maxWorkers |-> maxWorkers,
              lines |-> [k \in 1..Len(order) |-> ProgressLine(Deref(order[k]))],
              stats |-> IF metrics.CompletedTasks > 0
                        THEN <<[completed |-> metrics.CompletedTasks,
                                failed |-> metrics.FailedTasks]>>
                        ELSE <<>>,
              cancelled |-> Cancelled]
    /\ running' = {}
    /\ rpc' = "select"
    /\ UNCHANGED <<accounts, regions, scanners, maxWorkers, ignoreIDs,
                   ignoreNames, ignoreTags, resolveVars, tick, pc, tasks,
                   actualTasks, accountResults, progress, resultsMutex,
                   metrics, finalMetrics, written, unitVars, filterVars,
                   lockVars>>

\* lines 605-606, the ctx.Done() case of the select
ReporterStop ==
    /\ reporter
    /\ rpc = "select"
    /\ Cancelled
    /\ rpc' = "stopped"
    /\ UNCHANGED <<accounts, regions, scanners, maxWorkers, ignoreIDs,
                   ignoreNames, ignoreTags, resolveVars, running, snapshot,
                   tick, pc, tasks, actualTasks, accountResults, progress,
                   resultsMutex, metrics, finalMetrics, written, unitVars,
                   filterVars, lockVars>>

\* the runs the logger is checked beside, two units each: one scanner in two
\* regions, two scanners in one region, one scanner in two accounts
ReporterRuns ==
    { [accounts |-> SubSeq(AccountListing, 1, 1),
       regions |-> <<"us-east-1", "us-west-2">>,
       scanners |-> <<"EBS Volumes">>],
      [accounts |-> SubSeq(AccountListing, 1, 1),
       regions |-> <<"us-west-2">>,
       scanners |-> <<"IAM Users", "EBS Volumes">>],
      [accounts |-> SubSeq(AccountListing, 1, 2),
       regions |-> <<"us-west-2">>,
       scanners |-> <<"EBS Volumes">>] }

InitReport ==
    /\ \E run \in ReporterRuns :
          /\ accounts = run.accounts
          /\ regions = run.regions
          /\ scanners = run.scanners
    /\ maxWorkers \in WorkerChoices
    /\ \E c \in ScanIgnoreConfigs :
          /\ ignoreIDs = c.ids
          /\ ignoreNames = c.names
          /\ ignoreTags = c.tags
    /\ InitRun
    /\ Resolved

NextReport ==
    \/ Next
    \/ ReporterTick
    \/ ReporterReport
    \/ ReporterStop

SpecReport == InitReport /\ [][NextReport]_vars

(***************************************************************************)
(***************************************************************************)
(* The task body with the progress map's lock as a step of its own: each   *)
(* of startScanner, updateResultCount and completeScanner takes the lock   *)
(* (lines 68, 81, 89), changes the map and releases it on return (lines    *)
(* 69, 82, 90).  resultsMutex is taken and released at lines 794 and 800.  *)
(* The pool's metrics are changed only by WorkerStart and WorkerFinish,    *)
(* outside the task body.  Every goroutine that can take a step eventually *)
(* takes one.                                                              *)
(***************************************************************************)
\* mutex.Lock() of lines 68, 81 and 89
LockProgress(i) ==
    /\ ustate[i] = "Running"
    /\ upc[i] \in {"start", "update", "defer"}
    /\ progressMutex = 0
    /\ progressMutex' = i
    /\ UNCHANGED <<accounts, regions, scanners, maxWorkers, ignoreIDs,
                   ignoreNames, ignoreTags, resolveVars, reporterVars, pc,
                   tasks, actualTasks, accountResults, progress, resultsMutex,
                   metrics, finalMetrics, written, unitVars, filterVars>>

\* what the task body leaves alone while it holds the progress map's lock
LockedFrame ==
    UNCHANGED <<accounts, regions, scanners, maxWorkers, ignoreIDs,
                ignoreNames, ignoreTags, resolveVars, reporterVars, pc, tasks,
                actualTasks, metrics, finalMetrics, written, ustate,
                filterVars, accountResults, resultsMutex, results, current,
                uerr>>

\* lines 70-76 and the deferred Unlock of line 69
LockedStartScanner(i) ==
    /\ ustate[i] = "Running"
    /\ upc[i] = "start"
    /\ progressMutex = i
    /\ progress' = startScanner(progress, tasks[i].account.ID,
                                tasks[i].account.Name, LogRegion(tasks[i]),
                                tasks[i].scanner)
    /\ progressMutex' = 0
    /\ upc' = [upc EXCEPT ![i] = "session"]
    /\ filteredResults' = filteredResults
    /\ LockedFrame

\* updateResultCount returning with the lock still held
LockedUpdateResultCountKeepsLock(i) ==
    /\ ustate[i] = "Running"
    /\ upc[i] = "update"
    /\ progressMutex = i
    /\ progress' = updateResultCount(progress, tasks[i].account.ID,
                                     LogRegion(tasks[i]), tasks[i].scanner,
                                     Len(filteredResults[i]))
    /\ progressMutex' = i
    /\ filteredResults' =
          [filteredResults EXCEPT ![i] = AnnotateAll(@, tasks[i])]
    /\ upc' = [upc EXCEPT ![i] = "lock"]
    /\ LockedFrame

\* lines 83-85 with the deferred Unlock of line 82, then lines 778-791
LockedUpdateResultCount(i) ==
    /\ ustate[i] = "Running"
    /\ upc[i] = "update"
    /\ progressMutex = i
    /\ progress' = updateResultCount(progress, tasks[i].account.ID,
                                     LogRegion(tasks[i]), tasks[i].scanner,
                                     Len(filteredResults[i]))
    /\ progressMutex' = 0
    /\ filteredResults' =
          [filteredResults EXCEPT ![i] = AnnotateAll(@, tasks[i])]
    /\ upc' = [upc EXCEPT ![i] = "lock"]
    /\ LockedFrame

\* lines 91-92 and the deferred Unlock of line 90
LockedCompleteScanner(i) ==
    /\ ustate[i] = "Running"
    /\ upc[i] = "defer"
    /\ progressMutex = i
    /\ progress' = completeScanner(progress, tasks[i].account.ID,
                                   LogRegion(tasks[i]), tasks[i].scanner)
    /\ progressMutex' = 0
    /\ upc' = [upc EXCEPT ![i] = "returned"]
    /\ filteredResults' = filteredResults
    /\ LockedFrame

\* one step of the goroutine that runs task i
UnitStep(i) ==
    /\ i \in Units
    /\ \/ LockProgress(i)
       \/ LockedStartScanner(i)
       \/ GetSessionOK(i)
       \/ GetSessionFail(i)
       \/ ScanOK(i)
       \/ ScanFail(i)
       \/ LockedUpdateResultCount(i)
       \/ LockResults(i)
       \/ AppendResults(i)
       \/ LockedCompleteScanner(i)

\* the batches the locks are checked on: up to three units, among them units
\* of one account and scanner, which append to one list
LockRuns ==
    ReporterRuns \cup
       { [accounts |-> SubSeq(AccountListing, 1, 1),
          regions |-> <<"us-east-1", "us-west-2">>,
          scanners |-> <<"IAM Users", "EBS Volumes">>] }

InitLocks ==
    /\ \E run \in LockRuns :
          /\ accounts = run.accounts
          /\ regions = run.regions
          /\ scanners = run.scanners
    /\ maxWorkers \in WorkerChoices
    /\ \E c \in ScanIgnoreConfigs :
          /\ ignoreIDs = c.ids
          /\ ignoreNames = c.names
          /\ ignoreTags = c.tags
    /\ InitRun
    /\ Resolved

NextLocks ==
    \/ BuildTasks
    \/ ExecuteTasks
    \/ \E i \in Units : WorkerStart(i)
    \/ \E i \in Units : LockProgress(i)
    \/ \E i \in Units : LockedStartScanner(i)
    \/ \E i \in Units : GetSessionOK(i)
    \/ \E i \in Units : GetSessionFail(i)
    \/ \E i \in Units : ScanOK(i)
    \/ \E i \in Units : ScanFail(i)
    \/ \E i \in Units : LockedUpdateResultCount(i)
    \/ \E i \in Units : LockResults(i)
    \/ \E i \in Units : AppendResults(i)
    \/ \E i \in Units : LockedCompleteScanner(i)
    \/ \E i \in Units : WorkerFinish(i)
    \/ ExecuteTasksReturn
    \/ GetMetrics
    \/ WriteOutput

SpecLocks ==
    /\ InitLocks
    /\ [][NextLocks]_vars
    /\ \A i \in 1..MaxTasks : WF_vars(UnitStep(i))

(***************************************************************************)
(* Vocabulary of the properties.                                           *)
(***************************************************************************)
AfterBatch == pc \in {"metrics", "output", "done"}

\* the task has registered itself and its deferred completeScanner has not run
InFlight(i) ==
    /\ ustate[i] = "Running"
    /\ upc[i] \in {"session", "scan", "update", "lock", "append", "defer"}

\* the deferred completeScanner of the task has returned
Completed(i) == upc[i] = "returned" \/ ustate[i] \in Terminal

\* the task is past lines 794-800
Appended(i) ==
    /\ uerr[i] = ""
    /\ \/ upc[i] \in {"defer", "returned"}
       \/ ustate[i] = "Succeeded"

SamePair(i, id, label) == tasks[i].account.ID = id /\ tasks[i].scanner = label

RECURSIVE Occurrences(_, _)
Occurrences(s, x) ==
    IF s = <<>> THEN 0
    ELSE (IF Head(s) = x THEN 1 ELSE 0) + Occurrences(Tail(s), x)

RECURSIVE RetainedBag(_, _, _)
RetainedBag(is, id, label) ==
    IF is = {} THEN EmptyBag
    ELSE LET i == CHOOSE x \in is : TRUE
         IN  (IF SamePair(i, id, label) /\ Appended(i)
              THEN SeqToBag(filteredResults[i])
              ELSE EmptyBag) (+) RetainedBag(is \ {i}, id, label)

RECURSIVE RetainedCount(_, _, _)
RetainedCount(is, id, label) ==
    IF is = {} THEN 0
    ELSE LET i == CHOOSE x \in is : TRUE
         IN  (IF SamePair(i, id, label) /\ Appended(i)
              THEN Len(filteredResults[i])
              ELSE 0) + RetainedCount(is \ {i}, id, label)

GlobalLabels == {"IAM Roles", "IAM Users"}

RECURSIVE ExpectedUnits(_, _, _)
ExpectedUnits(scs, nRegions, nAccounts) ==
    IF scs = <<>> THEN 0
    ELSE nAccounts * (IF Head(scs) \in GlobalLabels THEN 1 ELSE nRegions)
            + ExpectedUnits(Tail(scs), nRegions, nAccounts)

(***************************************************************************)
(* C1.  The number of scan units built in one run is the sum over the      *)
(* scanner list of |accounts| * |effective regions|, a global-scope        *)
(* scanner ("IAM Roles", "IAM Users") counting one region and every other  *)
(* scanner the whole region list; the pool's TotalTasks after the batch,   *)
(* and the TotalTasks runScan reads, is that number.                       *)
(***************************************************************************)
C1_UnitCount ==
    LET n == ExpectedUnits(scanners, Len(regions), Len(accounts))
    IN  /\ pc # "build" => Len(tasks) = n /\ actualTasks = n
        /\ AfterBatch => metrics.TotalTasks = n
        /\ pc \in {"output", "done"} => finalMetrics.TotalTasks = n

C1_Witness ==
    /\ pc = "done"
    /\ Len(regions) = 2
    /\ \E k \in 1..Len(scanners) : scanners[k] \in GlobalLabels
    /\ \E k \in 1..Len(scanners) : scanners[k] \notin GlobalLabels
    /\ finalMetrics.TotalTasks = 3

(***************************************************************************)
(* C2.  The task list is the cross product account x effective regions x   *)
(* scanner, counted per entry of the three lists: a global-scope scanner   *)
(* has one unit per account, in us-east-1 and nowhere else, whether or not *)
(* us-east-1 was requested; any other scanner has one unit per account and *)
(* requested region, and none in a region that was not requested.          *)
(***************************************************************************)
UnitsWith(a, r, l) ==
    Cardinality({i \in 1..Len(tasks) :
                    /\ tasks[i].account = a
                    /\ tasks[i].region = r
                    /\ tasks[i].scanner = l})

C2_CrossProduct ==
    pc # "build" =>
        /\ \A i \in 1..Len(tasks) :
              /\ Occurrences(accounts, tasks[i].account) > 0
              /\ Occurrences(scanners, tasks[i].scanner) > 0
              /\ tasks[i].region \in RegionNames \cup {"us-east-1"}
        /\ \A k \in 1..Len(accounts) : \A l \in ScannerLabels :
           \A r \in RegionNames \cup {"us-east-1"} :
              UnitsWith(accounts[k], r, l) =
                 Occurrences(scanners, l) *
                    (IF l \in GlobalLabels
                     THEN (IF r = "us-east-1" THEN 1 ELSE 0)
                     ELSE Occurrences(regions, r))

C2_Witness ==
    /\ pc = "execute"
    /\ Len(accounts) = 2
    /\ regions = <<"us-west-2">>
    /\ scanners = <<"IAM Users", "EBS Volumes">>
    /\ UnitsWith(accounts[2], "us-east-1", "IAM Users") = 1
    /\ UnitsWith(accounts[2], "us-west-2", "EBS Volumes") = 1
    /\ Len(tasks) = 4

(***************************************************************************)
(* C3.  The list stored under an account and a scanner holds exactly the   *)
(* results retained by the units of that pair that have appended: each     *)
(* retained result as often as it was retained, none lost, duplicated or   *)
(* overwritten; after the batch its length is the sum of the units'        *)
(* retained counts.                                                        *)
(***************************************************************************)
C3_NoLostResults ==
    \A k \in 1..Len(accounts) : \A l \in ScannerLabels :
        LET id == accounts[k].ID
        IN  pc # "build" =>
               /\ SeqToBag(ResultsOf(accountResults, id, l))
                     = RetainedBag(Units, id, l)
               /\ Len(ResultsOf(accountResults, id, l))
                     = RetainedCount(Units, id, l)

C3_Witness ==
    /\ pc = "done"
    /\ metrics.PeakWorkers = 2
    /\ \E i \in Units : \E j \in Units \ {i} :
          /\ SamePair(j, tasks[i].account.ID, tasks[i].scanner)
          /\ ustate[i] = "Succeeded" /\ ustate[j] = "Succeeded"
          /\ Len(filteredResults[i]) = 2 /\ Len(filteredResults[j]) = 2
          /\ \A m, n \in 1..2 : filteredResults[i][m] # filteredResults[j][n]
          /\ Len(ResultsOf(accountResults, tasks[i].account.ID,
                           tasks[i].scanner)) = 4

C5_TaskAccounting ==
    /\ metrics.CompletedTasks + metrics.FailedTasks <= metrics.TotalTasks
    /\ AfterBatch =>
          metrics.CompletedTasks + metrics.FailedTasks = metrics.TotalTasks
    /\ metrics.CompletedTasks =
          Cardinality({i \in Units : ustate[i] = "Succeeded"})
    /\ metrics.FailedTasks =
          Cardinality({i \in Units : ustate[i] = "Failed"})

C5_Witness ==
    /\ pc = "metrics"
    /\ metrics.CompletedTasks = 2
    /\ metrics.FailedTasks = 1
    /\ metrics.TotalTasks = 3

(***************************************************************************)
(* C6.  At most maxWorkers units are Running; CurrentWorkers is the number *)
(* of Running units, so it goes up at a unit's start and down at its end,  *)
(* failed or not; 0 <= CurrentWorkers <= PeakWorkers <= maxWorkers always; *)
(* PeakWorkers never decreases; CurrentWorkers is 0 after the batch.       *)
(***************************************************************************)
C6_Gauges ==
    /\ 0 <= metrics.CurrentWorkers
    /\ metrics.CurrentWorkers <= metrics.PeakWorkers
    /\ metrics.PeakWorkers <= maxWorkers
    /\ metrics.CurrentWorkers = Cardinality({i \in Units : ustate[i] = "Running"})
    /\ AfterBatch => metrics.CurrentWorkers = 0

C6_PeakMonotone == metrics'.PeakWorkers >= metrics.PeakWorkers

C6_WorkerBound == []C6_Gauges /\ [][C6_PeakMonotone]_vars

C6_Witness ==
    /\ pc = "wait"
    /\ maxWorkers = 2
    /\ metrics.CurrentWorkers = 2
    /\ \E i \in Units : ustate[i] = "Pending"
    /\ \E i \in Units : ustate[i] = "Running" /\ uerr[i] # ""

(***************************************************************************)
(* C7.  ExecuteTasks returns only when every unit is Succeeded or Failed;  *)
(* runScan reads the metrics and the result structure after that, and from *)
(* then on no unit runs and nothing writes the result structure, the       *)
(* progress map or the metrics.  A Running unit leaves Running only by     *)
(* returning from its body: none is cancelled.                             *)
(***************************************************************************)
C7_Quiescent ==
    AfterBatch =>
        /\ \A i \in Units : ustate[i] \in Terminal /\ upc[i] = "idle"
        /\ resultsMutex = 0
        /\ pc \in {"output", "done"} => finalMetrics = metrics

C7_Frozen ==
    /\ AfterBatch =>
          /\ accountResults' = accountResults
          /\ progress' = progress
          /\ metrics' = metrics
    /\ \A i \in Units :
          ustate[i] = "Running" =>
             \/ ustate'[i] = "Running"
             \/ upc[i] = "returned" /\ ustate'[i] \in Terminal

C7_BatchBarrier == []C7_Quiescent /\ [][C7_Frozen]_vars

C7_Witness ==
    /\ pc = "output"
    /\ Len(tasks) = 3
    /\ \E i \in Units : ustate[i] = "Failed"
    /\ \E i \in Units : ustate[i] = "Succeeded" /\ Len(filteredResults[i]) > 0

(***************************************************************************)
(* C8.  A failed unit aborts neither the batch nor a sibling: while any    *)
(* other unit is still Pending or Running the run keeps waiting, a Pending *)
(* sibling can still be started as soon as a worker is free, and after the *)
(* batch every sibling is terminal and everything a succeeded sibling      *)
(* retained is in its account's list.                                      *)
(***************************************************************************)
C8_FailureIsolated ==
    \A i \in Units : uerr[i] # "" =>
        \A j \in Units \ {i} :
            /\ ustate[j] \in {"Pending", "Running"} => pc = "wait"
            /\ ustate[j] = "Pending" /\ metrics.CurrentWorkers < maxWorkers
                  => ENABLED WorkerStart(j)
            /\ AfterBatch =>
                  /\ ustate[j] \in Terminal
                  /\ ustate[j] = "Succeeded" =>
                        \A k \in 1..Len(filteredResults[j]) :
                           Occurrences(ResultsOf(accountResults,
                                                 tasks[j].account.ID,
                                                 tasks[j].scanner),
                                       filteredResults[j][k]) >= 1

C8_Witness ==
    /\ maxWorkers = 1
    /\ \E i \in Units : ustate[i] = "Failed"
    /\ \E j \in Units :
          /\ ustate[j] = "Running"
          /\ upc[j] = "defer"
          /\ uerr[j] = ""
          /\ Len(filteredResults[j]) > 0
          /\ Occurrences(ResultsOf(accountResults, tasks[j].account.ID,
                                   tasks[j].scanner),
                         filteredResults[j][1]) = 1

(***************************************************************************)
(* C9.  A unit whose session creation or Scan failed contributes nothing:  *)
(* it retains no result, never holds resultsMutex, never reads or writes   *)
(* the result structure, so a scanner key exists only where a unit that    *)
(* did not fail has appended; it is counted in FailedTasks and not in      *)
(* CompletedTasks.                                                         *)
(***************************************************************************)
C9_FailedUnitContributesNothing ==
    /\ \A i \in Units : uerr[i] # "" =>
          /\ filteredResults[i] = <<>>
          /\ current[i] = <<>>
          /\ resultsMutex # i
          /\ upc[i] \in {"defer", "returned", "idle"}
          /\ ustate[i] # "Succeeded"
    /\ pc # "build" =>
          \A k \in 1..Len(accounts) :
             \A l \in DOMAIN accountResults[accounts[k].ID].Results :
                \E j \in Units : SamePair(j, accounts[k].ID, l) /\ Appended(j)
    /\ metrics.FailedTasks =
          Cardinality({i \in Units : ustate[i] \in Terminal /\ uerr[i] # ""})
    /\ metrics.CompletedTasks =
          Cardinality({i \in Units : ustate[i] \in Terminal /\ uerr[i] = ""})

C9_Witness ==
    /\ pc = "done"
    /\ written # {}
    /\ finalMetrics.FailedTasks = 2
    /\ finalMetrics.CompletedTasks = 0
    /\ \E i \in Units :
          /\ uerr[i] = "scan error"
          /\ DOMAIN accountResults[tasks[i].account.ID].Results = {}
    /\ \E i \in Units : uerr[i] = "failed to create regional session"

(***************************************************************************)
(* C10.  A result is dropped exactly when a rule matches it: its resource  *)
(* id is an ignored id up to case, or its resource name is an ignored name *)
(* up to case, or one of its tags is an ignore-tag pair up to case in key  *)
(* and in value; the retained list is the input with the matching results  *)
(* removed, in the input's order.  Ignoring vol-123 in (vol-123, vol-456)  *)
(* retains vol-456 alone.                                                  *)
(***************************************************************************)
CasePairs ==
    {<<"A", "a">>, <<"B", "b">>, <<"V", "v">>, <<"O", "o">>, <<"L", "l">>,
     <<"E", "e">>, <<"P", "p">>}

SameUpToCase(s, t) ==
    /\ Len(s) = Len(t)
    /\ \A k \in 1..Len(s) :
          \/ s[k] = t[k]
          \/ <<s[k], t[k]>> \in CasePairs
          \/ <<t[k], s[k]>> \in CasePairs

SomeRuleMatches(r) ==
    \/ \E k \in 1..Len(ignoreIDs) : SameUpToCase(r.ResourceID, ignoreIDs[k])
    \/ \E k \in 1..Len(ignoreNames) : SameUpToCase(r.ResourceName, ignoreNames[k])
    \/ \E tk \in DOMAIN r.Tags : \E ik \in DOMAIN ignoreTags :
          SameUpToCase(tk, ik) /\ SameUpToCase(r.Tags[tk], ignoreTags[ik])

NoRuleMatches(r) == ~SomeRuleMatches(r)

C10_DropIffRuleMatches ==
    pc = "filtered" => filterOut = SelectSeq(filterIn, NoRuleMatches)

C10_Witness ==
    /\ pc = "filtered"
    /\ ignoreIDs = <<Vol123>>
    /\ Len(filterIn) = 2
    /\ filterIn[1].ResourceID = Vol123
    /\ filterIn[2].ResourceID = Vol456
    /\ filterOut = <<filterIn[2]>>

(***************************************************************************)
(* C11.  The filter is idempotent and its rule categories commute: for the *)
(* rule set of the run, filtering the retained list again returns it       *)
(* unchanged, and filtering the input by the id rules alone, the name      *)
(* rules alone and the tag rules alone, one after the other in any of the  *)
(* six orders, retains what the code's single pass over all three retains. *)
(***************************************************************************)
ByID(rs) == FilterResults(rs, ignoreIDs, <<>>, NoTags)

ByName(rs) == FilterResults(rs, <<>>, ignoreNames, NoTags)

ByTag(rs) == FilterResults(rs, <<>>, <<>>, ignoreTags)

C11_IdempotentCommutative ==
    pc = "filtered" =>
        /\ FilterResults(filterOut, ignoreIDs, ignoreNames, ignoreTags) = filterOut
        /\ ByTag(ByName(ByID(filterIn))) = filterOut
        /\ ByName(ByTag(ByID(filterIn))) = filterOut
        /\ ByTag(ByID(ByName(filterIn))) = filterOut
        /\ ByID(ByTag(ByName(filterIn))) = filterOut
        /\ ByName(ByID(ByTag(filterIn))) = filterOut
        /\ ByID(ByName(ByTag(filterIn))) = filterOut

C11_Witness ==
    /\ pc = "filtered"
    /\ Len(filterIn) = 2
    /\ ByID(filterIn) = <<filterIn[2]>>
    /\ ByName(filterIn) = <<filterIn[1]>>
    /\ ByTag(filterIn) = <<filterIn[1]>>
    /\ filterOut = <<>>

(***************************************************************************)
(* Vocabulary of the resolver's properties.                                *)
(***************************************************************************)
IDsOf(accts) == {accts[k].ID : k \in 1..Len(accts)}

\* runScan is past the per-account sessions and has not returned
PastSessions == pc \in {"regions", "pool", "reporter", "build", "execute", "wait"}

\* the task list exists
Scheduled == pc \in {"execute", "wait"}

\* nothing of lines 555-816 has happened
NothingScheduled ==
    /\ ~sharedPool
    /\ ~reporter
    /\ tasks = <<>>
    /\ actualTasks = 0
    /\ ustate = <<>>
    /\ metrics.TotalTasks = 0

NoneFound == "none of the specified accounts exist in the organization"

(***************************************************************************)
(* C12.  When account IDs are requested and the account listing holds none *)
(* of them, the account filter returns the error "none of the specified    *)
(* accounts exist in the organization": the shared pool has not been       *)
(* initialised, the progress logger has not been started, no task and no   *)
(* result entry has been created, nothing has been submitted to the pool,  *)
(* and runScan takes no further step.                                      *)
(***************************************************************************)
C12_Stopped ==
    runErr = NoneFound =>
        /\ pc = "failed"
        /\ opts.accounts # <<>>
        /\ NothingScheduled
        /\ accountResults = <<>>
        /\ accountSessions = <<>>
        /\ ~ENABLED NextResolve

C12_AtFilter ==
    /\ pc = "select"
    /\ opts.accounts # <<>>
    /\ IDsOf(accounts) \cap RequestedIDs(opts.accounts) = {}
    => pc' = "failed" /\ runErr' = NoneFound

C12_NoAccountFoundIsFatal == []C12_Stopped /\ [][C12_AtFilter]_vars

C12_Witness ==
    /\ pc = "failed"
    /\ runErr = NoneFound
    /\ opts.accounts = <<"999999999999">>
    /\ accountSource = "organization"
    /\ opts.scanners = <<"EBS Volumes">>
    /\ baseSession = "org-role"

(***************************************************************************)
(* C13, as claimed.  With both roles configured and the organization       *)
(* session not created, the run goes on with the current account as its    *)
(* only target and with the base session as that account's session.        *)
(***************************************************************************)
C13_SoleTargetOnBaseSession ==
    BothRoles /\ baseSession = "profile" /\ PastSessions =>
        /\ accounts = CurrentAccount
        /\ \A id \in DOMAIN accountSessions : accountSessions[id] = baseSession

(***************************************************************************)
(* C13, amended.  With both roles configured and the organization session  *)
(* not created, baseSession is the profile session and the run goes down   *)
(* the role-chaining path with it: the organization listing is attempted   *)
(* with that session and the current account is the only candidate when    *)
(* the listing failed; the targets are the candidates in which the scanner *)
(* role was assumed and verified, each with its assumed-role session and   *)
(* not the base session; every unit is for one of them.                    *)
(***************************************************************************)
C13_FallbackChain ==
    BothRoles /\ baseSession = "profile" =>
        /\ pc = "failed" =>
              runErr \in {NoneFound, "failed to initialize worker pool"}
        /\ PastSessions =>
              /\ accountSource \in {"organization", "current"}
              /\ accountSource = "current" => accounts = CurrentAccount
              /\ IDsOf(accounts) # {}
              /\ DOMAIN accountSessions = IDsOf(accounts)
              /\ \A id \in DOMAIN accountSessions :
                    accountSessions[id] = "scanner-role via profile"
              /\ \A k \in 1..Len(sessionWarnings) :
                    sessionWarnings[k].account_id \notin IDsOf(accounts)
        /\ Scheduled =>
              /\ \A i \in 1..Len(tasks) : tasks[i].account.ID \in IDsOf(accounts)
              /\ Len(tasks) = ExpectedUnits(scanners, Len(regions), Len(accounts))
              /\ DOMAIN accountResults = IDsOf(accounts)

C13_Witness ==
    /\ BothRoles
    /\ baseSession = "profile"
    /\ accountSource = "current"
    /\ pc = "wait"
    /\ accounts = CurrentAccount
    /\ Len(tasks) > 0
    /\ metrics.TotalTasks = Len(tasks)
    /\ \A i \in 1..Len(tasks) : tasks[i].account = CurrentAccount[1]

(***************************************************************************)
(* C14.  With role chaining, the session loop splits the candidates into   *)
(* the accounts it warned about (role not assumed, or identity not         *)
(* verified) and the accounts it gave a session.  An account warned about  *)
(* has no session, is not in the account list, has no entry in the result  *)
(* structure and no unit.  Every other candidate keeps its place in the    *)
(* list, has a session, and once the task list is built has a result entry *)
(* and one unit per scanner and effective region.  The loop ends the run   *)
(* only when no account at all got a session.                              *)
(***************************************************************************)
WarnedIDs(ws) == {ws[k].account_id : k \in 1..Len(ws)}

UnitsOfAccount(id) == Cardinality({i \in 1..Len(tasks) : tasks[i].account.ID = id})

C14_Skipped ==
    BothRoles /\ PastSessions =>
        /\ \A id \in WarnedIDs(sessionWarnings) :
              /\ id \notin DOMAIN accountSessions
              /\ id \notin IDsOf(accounts)
              /\ Scheduled => id \notin DOMAIN accountResults
              /\ Scheduled => UnitsOfAccount(id) = 0
        /\ \A id \in IDsOf(accounts) :
              /\ id \in DOMAIN accountSessions
              /\ Scheduled => id \in DOMAIN accountResults
              /\ Scheduled =>
                    UnitsOfAccount(id) = ExpectedUnits(scanners, Len(regions), 1)

C14_AtSessions ==
    pc = "sessions" /\ BothRoles =>
        /\ IDsOf(accounts) = DOMAIN accountSessions' \cup WarnedIDs(sessionWarnings')
        /\ DOMAIN accountSessions' \cap WarnedIDs(sessionWarnings') = {}
        /\ DOMAIN accountSessions' # {} =>
              /\ pc' = "regions"
              /\ accounts' = FilterAccounts(accounts, DOMAIN accountSessions')
        /\ DOMAIN accountSessions' = {} => pc' = "skipped" /\ runErr' = ""

C14_AccountSkippedAlone == []C14_Skipped /\ [][C14_AtSessions]_vars

C14_Witness ==
    /\ BothRoles
    /\ pc = "wait"
    /\ Len(sessionWarnings) = 1
    /\ sessionWarnings[1].account_id = AccountListing[1].ID
    /\ accounts = <<AccountListing[2]>>
    /\ UnitsOfAccount(AccountListing[2].ID) = 2
    /\ UnitsOfAccount(AccountListing[1].ID) = 0
    /\ metrics.TotalTasks = 2

(***************************************************************************)
(* C15, as claimed.  runScan returns an error only when account IDs were   *)
(* requested and none of them is in the listing.                           *)
(***************************************************************************)
C15_OnlyNoAccountFoundFails == pc = "failed" => runErr = NoneFound

(***************************************************************************)
(* C15, amended.  runScan returns an error in exactly these situations:    *)
(* S3 output without a bucket or with a bucket that fails validation; no   *)
(* valid scanner while at least one requested name is invalid; account IDs *)
(* requested and none of them in the listing; the shared pool failing to   *)
(* initialise.  Every other return before the task list (cost estimator,   *)
(* base session, listing, no session for any account, region lookup or     *)
(* validation) is a return of nil.                                         *)
(***************************************************************************)
NoBucket == "S3 bucket not specified"

BucketRejected == "S3 bucket validation failed"

NoValidScanner == "no valid scanners found and invalid scanners specified"

NoPool == "failed to initialize worker pool"

C15_Errors ==
    /\ pc = "failed" <=> runErr # ""
    /\ runErr \in {"", NoBucket, BucketRejected, NoValidScanner, NoneFound, NoPool}
    /\ runErr \in {NoBucket, BucketRejected} =>
          scanners = <<>> /\ invalidScanners = <<>> /\ baseSession = ""
    /\ runErr = NoValidScanner =>
          scanners = <<>> /\ invalidScanners # <<>> /\ baseSession = ""
    /\ runErr = NoneFound => opts.accounts # <<>> /\ accounts = <<>>
    /\ runErr = NoPool => ~sharedPool /\ DOMAIN accountSessions # {}
    /\ pc = "skipped" => NothingScheduled

C15_AtReturn ==
    /\ pc' = "failed" => pc \in {"start", "scanners", "select", "pool", "failed"}
    /\ pc = "scanners" /\ pc' # pc =>
          (pc' = "failed" <=> scanners' = <<>> /\ invalidScanners' # <<>>)
    /\ pc = "select" /\ pc' # pc =>
          (pc' = "failed" <=> opts.accounts # <<>> /\ accounts' = <<>>)
    /\ pc = "pool" /\ pc' # pc => (pc' = "failed" <=> ~sharedPool')
    /\ pc \in {"cost", "base", "list", "sessions", "regions"} /\ pc' # pc =>
          pc' # "failed" /\ runErr' = ""

C15_ErrorReturns == []C15_Errors /\ [][C15_AtReturn]_vars

C15_Witness ==
    /\ pc = "failed"
    /\ runErr = NoValidScanner
    /\ opts.accounts = <<>>
    /\ invalidScanners = <<"Bogus">>

(***************************************************************************)
(* C16, as claimed.  Whenever a requested scanner name is not in the       *)
(* registry the run has ended with an error and no unit exists.            *)
(***************************************************************************)
C16_AnyInvalidNameIsFatal ==
    invalidScanners # <<>> => pc = "failed" /\ tasks = <<>>

(***************************************************************************)
(* C16, amended.  The requested names are split at the commas and looked   *)
(* up as they are; those the registry does not know are reported as        *)
(* invalid.  They are fatal only when no requested name is valid: then the *)
(* run returns the error before any session, pool, reporter or unit        *)
(* exists.  When some requested name is valid the run goes on with the     *)
(* valid scanners, and no unit is built for an invalid name.               *)
(***************************************************************************)
RangeOf(seq) == {seq[k] : k \in 1..Len(seq)}

RequestedNames == {Concat(piece) : piece \in RangeOf(Split(opts.scanners))}

C16_InvalidFatalOnlyAlone ==
    /\ /\ pc \notin {"start", "scanners"}
       /\ opts.scanners # <<>>
       /\ runErr \notin {NoBucket, BucketRejected}
       =>
          /\ RangeOf(scanners) = {n \in RequestedNames : Registered(n)}
          /\ RangeOf(invalidScanners) = {n \in RequestedNames : ~Registered(n)}
          /\ Len(scanners) + Len(invalidScanners) = Len(Split(opts.scanners))
    /\ invalidScanners # <<>> =>
          IF scanners = <<>>
          THEN /\ pc = "failed"
               /\ runErr = NoValidScanner
               /\ baseSession = ""
               /\ accountSessions = <<>>
               /\ NothingScheduled
          ELSE /\ runErr # NoValidScanner
               /\ Scheduled =>
                     \A i \in 1..Len(tasks) :
                        /\ tasks[i].scanner \in RangeOf(scanners)
                        /\ tasks[i].scanner \notin RangeOf(invalidScanners)

C16_Witness ==
    /\ pc = "wait"
    /\ opts.scanners = <<"EBS Volumes", ",", "Bogus">>
    /\ invalidScanners = <<"Bogus">>
    /\ scanners = <<"EBS Volumes">>
    /\ Len(tasks) > 0
    /\ metrics.TotalTasks = Len(tasks)

(***************************************************************************)
(* C17.  A failure of the cost estimator, of the base or organization      *)
(* session, of an account listing or of the region lookup or validation    *)
(* never ends the run without units: the run ends before the task list     *)
(* only with a configuration error or, quietly, when there was no scanner  *)
(* to run or the session loop left no account with a session.              *)
(***************************************************************************)
C17_DegradableFailureNeverEndsRun ==
    pc = "skipped" /\ scanners # <<>> =>
        /\ accountSource # ""
        /\ DOMAIN accountSessions = {}

(***************************************************************************)
(* C18.  A unit is Pending, Running, Succeeded or Failed.  Its state       *)
(* changes only from Pending to Running, when its body is entered, and     *)
(* from Running to Succeeded or Failed, when its body has returned: Failed *)
(* if it returned an error, Succeeded otherwise.  Succeeded and Failed are *)
(* never left, so a failed unit is not run again.  The body is walked once *)
(* from its entry to its return along the code's control flow, and after   *)
(* the batch every unit has been through it.                               *)
(***************************************************************************)
BodyFlow ==
    {<<"start", "session">>, <<"session", "scan">>, <<"session", "defer">>,
     <<"scan", "update">>, <<"scan", "defer">>, <<"update", "lock">>,
     <<"lock", "append">>, <<"append", "defer">>, <<"defer", "returned">>}

C18_States ==
    /\ \A i \in Units :
          /\ ustate[i] \in {"Pending", "Running", "Succeeded", "Failed"}
          /\ ustate[i] \in {"Pending", "Succeeded", "Failed"} <=> upc[i] = "idle"
          /\ ustate[i] = "Failed" => uerr[i] # ""
          /\ ustate[i] = "Succeeded" => uerr[i] = ""
          /\ ustate[i] = "Pending" =>
                uerr[i] = "" /\ results[i] = <<>> /\ filteredResults[i] = <<>>
    /\ AfterBatch => \A i \in Units : ustate[i] \in Terminal

C18_Step ==
    \A i \in Units :
        /\ \/ ustate'[i] = ustate[i]
           \/ ustate[i] = "Pending" /\ ustate'[i] = "Running"
           \/ /\ ustate[i] = "Running"
              /\ upc[i] = "returned"
              /\ ustate'[i] = IF uerr[i] # "" THEN "Failed" ELSE "Succeeded"
        /\ \/ upc'[i] = upc[i]
           \/ ustate[i] = "Pending" /\ upc'[i] = "start"
           \/ ustate'[i] = "Running" /\ <<upc[i], upc'[i]>> \in BodyFlow
           \/ upc[i] = "returned" /\ upc'[i] = "idle" /\ ustate'[i] \in Terminal

C18_UnitStateMachine == []C18_States /\ [][C18_Step]_vars

C18_Witness ==
    /\ pc = "done"
    /\ Len(tasks) = 3
    /\ Cardinality({i \in Units : ustate[i] = "Failed"}) = 1
    /\ Cardinality({i \in Units : ustate[i] = "Succeeded"}) = 2
    /\ \E i \in Units : uerr[i] = "scan error" /\ results[i] = <<>>

(***************************************************************************)
(* C19.  The progress map holds an entry exactly for the units between     *)
(* their startScanner and their completeScanner: every key in the map is   *)
(* the key of such a unit, and every such unit has an entry under its own  *)
(* key, with its account, region label and scanner, in getRunning.         *)
(***************************************************************************)
EntryOf(i) ==
    [AccountID |-> tasks[i].account.ID, AccountName |-> tasks[i].account.Name,
     Region |-> LogRegion(tasks[i]), Scanner |-> tasks[i].scanner]

C19_EntryIffInFlight ==
    /\ \A key \in DOMAIN progress :
          \E i \in Units : InFlight(i) /\ TaskKey(tasks[i]) = key
    /\ \A i \in Units :
          InFlight(i) =>
             /\ TaskKey(tasks[i]) \in DOMAIN progress
             /\ \E prog \in getRunning(progress) :
                   [f \in DOMAIN EntryOf(i) |-> prog[f]] = EntryOf(i)

(***************************************************************************)
(* C20.  No two units that are Running at the same time have the same      *)
(* account, region and scanner, hence never the same progress key; so no   *)
(* unit's startScanner overwrites, and no unit's completeScanner deletes,  *)
(* the entry of another unit that is in flight.                            *)
(***************************************************************************)
C20_UniqueRunningTuple ==
    \A i \in Units : \A j \in Units \ {i} :
        ustate[i] = "Running" /\ ustate[j] = "Running" =>
            /\ tasks[i] # tasks[j]
            /\ TaskKey(tasks[i]) # TaskKey(tasks[j])

(***************************************************************************)
(* C30.  The task list is built in one fixed order: the scanners in the    *)
(* order of the scanner list, under each scanner its effective regions in  *)
(* the order of the region list, under each region the accounts in the     *)
(* order of the authenticated account list.  The unit of the s-th scanner, *)
(* its r-th region and the a-th account stands at a position computed from *)
(* s, r and a alone, so equal inputs give equal task sequences.            *)
(***************************************************************************)
EffectiveRegions(label) ==
    IF label \in GlobalLabels THEN <<"us-east-1">> ELSE regions

RECURSIVE UnitsBefore(_)
UnitsBefore(s) ==
    IF s = 1 THEN 0
    ELSE UnitsBefore(s - 1)
            + Len(accounts) * Len(EffectiveRegions(scanners[s - 1]))

PositionOf(s, r, a) == UnitsBefore(s) + (r - 1) * Len(accounts) + a

C30_DeterministicOrder ==
    pc # "build" =>
        \A s \in 1..Len(scanners) :
        \A r \in 1..Len(EffectiveRegions(scanners[s])) :
        \A a \in 1..Len(accounts) :
            /\ PositionOf(s, r, a) \in 1..Len(tasks)
            /\ tasks[PositionOf(s, r, a)] =
                  [account |-> accounts[a],
                   region |-> EffectiveRegions(scanners[s])[r],
                   scanner |-> scanners[s]]

C30_Witness ==
    /\ pc = "execute"
    /\ scanners = <<"EBS Volumes", "IAM Users">>
    /\ regions = <<"us-west-2", "us-east-1">>
    /\ Len(accounts) = 2
    /\ Len(tasks) = 6
    /\ tasks[2] = [account |-> accounts[2], region |-> "us-west-2",
                   scanner |-> "EBS Volumes"]
    /\ tasks[3] = [account |-> accounts[1], region |-> "us-east-1",
                   scanner |-> "EBS Volumes"]
    /\ tasks[5].scanner = "IAM Users"

(***************************************************************************)
(* C23.  A unit of a global-scope scanner is executed against us-east-1    *)
(* and reported as "global": that is the Region of its progress entry, the *)
(* region part of its progress key and the Details["region"] of each       *)
(* result it retains.  A unit of any other scanner is reported under the   *)
(* requested region it scans, and nothing of it carries "global".          *)
(***************************************************************************)
ReportedRegion(t) ==
    IF t.scanner \in GlobalLabels THEN "global" ELSE t.region

\* the units in flight whose progress entry stands under key k
OwnersOf(k) ==
    {i \in Units :
        /\ InFlight(i)
        /\ k = tasks[i].account.ID \o ":" \o ReportedRegion(tasks[i])
                  \o ":" \o tasks[i].scanner}

C23_RegionLabel ==
    /\ \A i \in Units :
          /\ tasks[i].scanner \in GlobalLabels => tasks[i].region = "us-east-1"
          /\ tasks[i].scanner \notin GlobalLabels =>
                /\ tasks[i].region \in RangeOf(regions)
                /\ ReportedRegion(tasks[i]) # "global"
          /\ upc[i] \in {"lock", "append"} =>
                \A k \in 1..Len(filteredResults[i]) :
                    filteredResults[i][k].Details["region"]
                        = ReportedRegion(tasks[i])
    /\ \A k \in DOMAIN progress :
          /\ OwnersOf(k) # {}
          /\ \A i \in OwnersOf(k) :
                /\ progress[k].Region = ReportedRegion(tasks[i])
                /\ progress[k].Scanner = tasks[i].scanner
    /\ \A id \in DOMAIN accountResults :
       \A label \in DOMAIN accountResults[id].Results :
       \A k \in 1..Len(accountResults[id].Results[label]) :
          LET where == accountResults[id].Results[label][k].Details["region"]
          IN  IF label \in GlobalLabels
              THEN where = "global"
              ELSE where \in RangeOf(regions) /\ where # "global"

C23_Witness ==
    /\ regions = <<"us-west-2">>
    /\ scanners = <<"IAM Users", "EBS Volumes">>
    /\ \E i \in Units :
          /\ tasks[i].scanner = "IAM Users"
          /\ tasks[i].region = "us-east-1"
          /\ upc[i] = "defer"
          /\ uerr[i] = ""
          /\ LET key == tasks[i].account.ID \o ":global:IAM Users"
                 list == accountResults[tasks[i].account.ID].Results
             IN  /\ key \in DOMAIN progress
                 /\ progress[key].Region = "global"
                 /\ "IAM Users" \in DOMAIN list
                 /\ \E k \in 1..Len(list["IAM Users"]) :
                       list["IAM Users"][k].Details["region"] = "global"
    /\ \E j \in Units :
          /\ tasks[j].scanner = "EBS Volumes"
          /\ upc[j] = "lock"
          /\ filteredResults[j] # <<>>
          /\ filteredResults[j][1].Details["region"] = "us-west-2"
          /\ progress[tasks[j].account.ID \o ":us-west-2:EBS Volumes"].Region
                = "us-west-2"

(***************************************************************************)
(* C29.  The three progress calls of a unit use one key, built from the    *)
(* reported region label: startScanner creates the entry under it,         *)
(* updateResultCount writes under it and touches no other entry, and       *)
(* completeScanner removes it, for global-scope and regional units alike.  *)
(* The count that updateResultCount stores is the number of results the    *)
(* filter retained, and for a unit that shares its key with no other unit  *)
(* the entry keeps that count until the unit completes.                    *)
(***************************************************************************)
ReportedKey(t) ==
    t.account.ID \o ":" \o ReportedRegion(t) \o ":" \o t.scanner

C29_Step ==
    \A i \in Units :
        LET key == ReportedKey(tasks[i])
        IN  /\ upc[i] = "start" /\ upc'[i] = "session" =>
                /\ DOMAIN progress' = DOMAIN progress \cup {key}
                /\ progress'[key].ResultCount = 0
            /\ upc[i] = "update" /\ upc'[i] = "lock" =>
                /\ DOMAIN progress' = DOMAIN progress
                /\ \A k \in DOMAIN progress \ {key} : progress'[k] = progress[k]
                /\ key \in DOMAIN progress =>
                      progress'[key].ResultCount = Len(filteredResults'[i])
            /\ upc[i] = "defer" /\ upc'[i] = "returned" =>
                DOMAIN progress' = DOMAIN progress \ {key}

C29_Count ==
    \A i \in Units :
        /\ ustate[i] = "Running"
        /\ upc[i] \in {"lock", "append", "defer"}
        /\ uerr[i] = ""
        /\ \A j \in Units \ {i} : ReportedKey(tasks[j]) # ReportedKey(tasks[i])
        => /\ ReportedKey(tasks[i]) \in DOMAIN progress
           /\ progress[ReportedKey(tasks[i])].ResultCount
                 = Len(filteredResults[i])

C29_OneKeyRetainedCount == []C29_Count /\ [][C29_Step]_vars

C29_Witness ==
    \E i \in Units :
        /\ tasks[i].scanner = "IAM Roles"
        /\ upc[i] = "defer"
        /\ uerr[i] = ""
        /\ Len(results[i]) = 3
        /\ Len(filteredResults[i]) = 2
        /\ progress[tasks[i].account.ID \o ":global:IAM Roles"].ResultCount = 2

(***************************************************************************)
(* C24.  With --accounts given, the account filter keeps exactly the       *)
(* listed accounts whose ID is among the requested IDs, trimmed of white   *)
(* space.  A requested ID the listing lacks is named in the warning and    *)
(* dropped, and the run goes on while one requested ID is listed.  From    *)
(* then on every session and every unit belongs to a requested account.    *)
(***************************************************************************)
C24_Requested ==
    {Concat(TrimSpace(piece)) : piece \in RangeOf(Split(opts.accounts))}

C24_AtFilter ==
    pc = "select" /\ opts.accounts # <<>> =>
        /\ IDsOf(accounts') = IDsOf(accounts) \cap C24_Requested
        /\ RangeOf(invalidAccounts') = C24_Requested \ IDsOf(accounts)
        /\ IDsOf(accounts) \cap C24_Requested # {} =>
              pc' = "sessions" /\ runErr' = ""

C24_Scanned ==
    opts.accounts # <<>> =>
        /\ DOMAIN accountSessions \subseteq C24_Requested
        /\ \A i \in 1..Len(tasks) : tasks[i].account.ID \in C24_Requested
        /\ Scheduled /\ sessionWarnings = <<>> =>
              /\ DOMAIN accountSessions = IDsOf(accounts)
              /\ scanners # <<>> =>
                    {tasks[i].account.ID : i \in 1..Len(tasks)} = IDsOf(accounts)

C25_NoRoleChaining ==
    ~(opts.organizationRole # "" /\ opts.scannerRole # "") =>
        /\ baseSession \in {"", "profile"}
        /\ accountSource \in {"", "current"}
        /\ IDsOf(accounts) \subseteq {AccountListing[1].ID}
        /\ sessionWarnings = <<>>
        /\ \A id \in DOMAIN accountSessions :
              accountSessions[id] = baseSession /\ baseSession = "profile"
        /\ \A i \in 1..Len(tasks) :
              /\ tasks[i].account = AccountListing[1]
              /\ accountSessions[tasks[i].account.ID] = baseSession

C25_Witness ==
    /\ opts.organizationRole = "Role"
    /\ opts.scannerRole = ""
    /\ pc = "execute"
    /\ Len(tasks) >= 2
    /\ accountSource = "current"
    /\ accountSessions = [id \in {"111111111111"} |-> "profile"]

(***************************************************************************)
(* C21.  The logger's token is created with the run and cancelled when     *)
(* runScan returns; once it is cancelled the logger emits no further       *)
(* progress snapshot.                                                      *)
(***************************************************************************)
C21_NoSnapshotAfterCancel ==
    snapshot.n > 0 => ~snapshot.cancelled

(***************************************************************************)
(* C26.  No record of the progress map is read by a consumer of getRunning *)
(* while updateResultCount can write it, unless both hold the map's lock:  *)
(* there is no state in which the logger, outside the lock, is about to    *)
(* read the ResultCount of a record that a unit is about to write.         *)
(***************************************************************************)
\* the logger holds a pointer to the record of unit i and will read it
\* without the lock (line 644)
ReadsUnlocked(i) ==
    /\ rpc = "report"
    /\ \E r \in running :
          ReportedKey(tasks[i]) = r.AccountID \o ":" \o r.Region \o ":" \o r.Scanner

\* unit i is at its updateResultCount (line 775, the write of line 84)
AboutToWrite(i) ==
    /\ ustate[i] = "Running"
    /\ upc[i] = "update"
    /\ ReportedKey(tasks[i]) \in DOMAIN progress

C26_NoUnsynchronisedAccess ==
    \A i \in Units : ~(ReadsUnlocked(i) /\ AboutToWrite(i))

(***************************************************************************)
(* C27.  The logger's listing of the units in flight is deterministic: for *)
(* a given set of progress entries there is one sequence of lines it can   *)
(* emit, ordered by account ID and then scanner label, also when two       *)
(* entries differ in their region only.                                    *)
(***************************************************************************)
C27_DeterministicListing ==
    rpc = "report" =>
        \A first, second \in SortOutcomes(running) : first = second

(***************************************************************************)
(* C28.  A tick leads to a progress snapshot if and only if no log was     *)
(* written during the preceding tick interval and at least one unit is in  *)
(* flight; a tick with recent log activity or with no unit in flight emits *)
(* nothing.  A snapshot is emitted only after such a tick, it is the next  *)
(* thing the logger does, it has one line per entry the tick found, and it *)
(* carries the throughput line if and only if CompletedTasks > 0.          *)
(***************************************************************************)
C28_Step ==
    /\ tick' # tick =>
          /\ rpc = "select" /\ tick'.n = tick.n + 1
          /\ snapshot' = snapshot
          /\ tick'.inflight = Cardinality({i \in Units : InFlight(i)})
          /\ rpc' = "report" <=>
                (\E i \in Units : InFlight(i)) /\ ~tick'.recent
          /\ rpc' # "report" => rpc' = "select" /\ running' = {}
    /\ snapshot' # snapshot =>
          /\ rpc = "report" /\ tick' = tick
          /\ snapshot'.n = snapshot.n + 1
          /\ Len(snapshot'.lines) = tick.inflight
          /\ snapshot'.stats # <<>> <=> metrics.CompletedTasks > 0
    /\ rpc = "report" /\ rpc' # rpc => snapshot' # snapshot

C28_State ==
    /\ snapshot.n <= tick.n
    /\ rpc = "report" => tick.inflight > 0 /\ ~tick.recent
    /\ rpc # "report" /\ tick.n > 0 /\ tick.n = snapshot.n =>
          tick.inflight > 0 /\ ~tick.recent

C28_SnapshotIffQuietAndBusy == []C28_State /\ [][C28_Step]_vars

C28_Witness ==
    /\ tick.n = 2
    /\ tick.recent
    /\ tick.inflight > 0
    /\ snapshot.n = 1
    /\ Len(snapshot.lines) = 1
    /\ snapshot.stats # <<>>

(***************************************************************************)
(* C22.  No unit holds two of the locks at once: a unit that holds, or     *)
(* waits for, resultsMutex does not hold the progress map's lock, a unit   *)
(* holds no lock while it creates its session or calls Scan, and the       *)
(* pool's metrics change only outside the task body.  No state before the  *)
(* end of the run is a deadlock, and every unit that waits for either lock *)
(* eventually gets it.                                                     *)
(***************************************************************************)
HoldsProgress(i) == progressMutex = i

HoldsResults(i) == resultsMutex = i

WaitsForProgress(i) ==
    /\ i \in Units
    /\ ustate[i] = "Running"
    /\ upc[i] \in {"start", "update", "defer"}
    /\ ~HoldsProgress(i)

WaitsForResults(i) ==
    /\ i \in Units
    /\ ustate[i] = "Running"
    /\ upc[i] = "lock"

C22_OneLockAtATime ==
    /\ \A i \in Units :
          /\ ~(HoldsProgress(i) /\ HoldsResults(i))
          /\ upc[i] \in {"lock", "append"} => ~HoldsProgress(i)
          /\ upc[i] \in {"session", "scan"} =>
                ~HoldsProgress(i) /\ ~HoldsResults(i)
          /\ upc[i] \in {"idle", "returned"} =>
                ~HoldsProgress(i) /\ ~HoldsResults(i)
          /\ HoldsResults(i) => ustate[i] = "Running" /\ upc[i] = "append"
          /\ HoldsProgress(i) => ustate[i] = "Running"
    /\ progressMutex \in {0} \cup Units
    /\ resultsMutex \in {0} \cup Units
    /\ pc # "done" => ENABLED NextLocks

C22_MetricsOutsideBody ==
    metrics' # metrics =>
        /\ progressMutex' = progressMutex
        /\ resultsMutex' = resultsMutex
        /\ \A i \in Units :
              upc'[i] # upc[i] =>
                 /\ upc[i] \in {"idle", "returned"}
                 /\ ~HoldsProgress(i) /\ ~HoldsResults(i)

C22_Granted ==
    \A i \in 1..MaxTasks :
        /\ WaitsForProgress(i) ~> (i \in Units /\ HoldsProgress(i))
        /\ WaitsForResults(i) ~> (i \in Units /\ HoldsResults(i))

C22_NoDeadlock ==
    /\ []C22_OneLockAtATime
    /\ [][C22_MetricsOutsideBody]_vars
    /\ C22_Granted

C22_Witness ==
    \E i, j \in Units :
        /\ HoldsResults(i)
        /\ WaitsForResults(j)
        /\ tasks[i].scanner = tasks[j].scanner
        /\ progressMutex = 0

(***************************************************************************)
(* C31.  updateResultCount and completeScanner on a key without an entry   *)
(* leave the progress map as it is: the first never creates an entry, the  *)
(* second removes nothing else.  startScanner leaves exactly one entry     *)
(* under its key, with ResultCount 0 and the caller's fields, whether or   *)
(* not the key had an entry, and leaves every other entry alone.           *)
(***************************************************************************)
C31_Step ==
    \A i \in Units :
        LET key == ReportedKey(tasks[i])
        IN  /\ upc[i] = "update" /\ upc'[i] = "lock" /\ key \notin DOMAIN progress
                => progress' = progress
            /\ upc[i] = "defer" /\ upc'[i] = "returned" /\ key \notin DOMAIN progress
                => progress' = progress
            /\ upc[i] = "start" /\ upc'[i] = "session" =>
                /\ DOMAIN progress' = DOMAIN progress \cup {key}
                /\ progress'[key] =
                      [AccountID |-> tasks[i].account.ID,
                       AccountName |-> tasks[i].account.Name,
                       Region |-> ReportedRegion(tasks[i]),
                       Scanner |-> tasks[i].scanner,
                       ResultCount |-> 0]
                /\ \A k \in DOMAIN progress \ {key} : progress'[k] = progress[k]

C31_AbsentKeyIsNoOp == [][C31_Step]_vars

\* two units share a key: one is past its updateResultCount, the other has
\* run its completeScanner, and the key has no entry
C31_Witness ==
    \E i, j \in Units :
        /\ i # j
        /\ ReportedKey(tasks[i]) = ReportedKey(tasks[j])
        /\ upc[i] = "lock" /\ uerr[i] = ""
        /\ Len(filteredResults[i]) = 2
        /\ upc[j] = "returned"
        /\ ReportedKey(tasks[i]) \notin DOMAIN progress

(***************************************************************************)
(* C32, as claimed.  Once the units are scheduled, the accounts of the     *)
(* task list, the keys of accountSessions and the keys of accountResults   *)
(* are one and the same set.                                               *)
(***************************************************************************)
TaskAccounts == {tasks[i].account.ID : i \in 1..Len(tasks)}

C32_TaskAccountsAreTheKeys ==
    Scheduled =>
        /\ TaskAccounts = DOMAIN accountSessions
        /\ TaskAccounts = DOMAIN accountResults

(***************************************************************************)
(* C32, amended.  Once the units are scheduled, accountSessions and        *)
(* accountResults have the same keys, the IDs of the authenticated         *)
(* accounts, and every unit's account is among them, so no unit looks up a *)
(* missing session or appends to a missing result set.  The accounts of    *)
(* the task list are that whole set when the scanner list is not empty;    *)
(* with an empty scanner list there is no unit at all.                     *)
(***************************************************************************)
C32_UnitsHaveSessionAndResultSet ==
    Scheduled =>
        /\ DOMAIN accountSessions = DOMAIN accountResults
        /\ DOMAIN accountSessions = IDsOf(accounts)
        /\ DOMAIN accountSessions # {}
        /\ TaskAccounts \subseteq DOMAIN accountSessions
        /\ scanners # <<>> => TaskAccounts = DOMAIN accountSessions
        /\ scanners = <<>> => tasks = <<>>
        /\ \A id \in DOMAIN accountResults :
              /\ accountResults[id].AccountID = id
              /\ accountSessions[id] # ""

C32_Witness ==
    /\ Scheduled
    /\ scanners # <<>>
    /\ sessionWarnings # <<>>
    /\ accountSource = "organization"
    /\ TaskAccounts = {"222222222222"}
    /\ DOMAIN accountSessions = {"222222222222"}
    /\ DOMAIN accountResults = {"222222222222"}

(***************************************************************************)
(* C33.  In every reachable state the progress map has at most as many     *)
(* entries as there are units Running, and at most maxWorkers units are    *)
(* Running.  An entry is put by a Running unit at the start of its body    *)
(* and removed by the same unit's deferred call before the unit ends; two  *)
(* units with the same key share one entry.                                *)
(***************************************************************************)
RunningUnits == {i \in Units : ustate[i] = "Running"}

C33_EntriesWithinRunningWithinWorkers ==
    /\ Cardinality(DOMAIN progress) <= Cardinality(RunningUnits)
    /\ Cardinality(RunningUnits) <= maxWorkers
    /\ \A k \in DOMAIN progress :
          \E i \in RunningUnits :
              /\ ReportedKey(tasks[i]) = k
              /\ upc[i] \notin {"start", "returned"}

C33_Witness ==
    /\ maxWorkers = 2
    /\ Cardinality(RunningUnits) = 2
    /\ Cardinality(DOMAIN progress) = 2
    /\ \E i \in Units : ustate[i] \in Terminal

(***************************************************************************)
(* C34.  When the session loop ends with no session for any account, the   *)
(* run returns at line 529 without an error: every account has its warning *)
(* and none has a session, no unit is built, the worker pool is not        *)
(* initialised, the reporter is not started and nothing is written.        *)
(***************************************************************************)
NoSessionForAnyAccount ==
    /\ pc = "skipped"
    /\ accounts # <<>>
    /\ baseSession # ""
    /\ DOMAIN accountSessions = {}

C34_Returned ==
    NoSessionForAnyAccount =>
        /\ runErr = ""
        /\ NothingScheduled
        /\ written = {}
        /\ DOMAIN accountResults = {}
        /\ BothRoles
        /\ WarnedIDs(sessionWarnings) = IDsOf(accounts)
        /\ Len(sessionWarnings) = Len(accounts)

C34_AtSessions ==
    pc = "sessions" /\ DOMAIN accountSessions' = {} =>
        /\ pc' = "skipped"
        /\ runErr' = ""
        /\ accounts' = accounts
        /\ NothingScheduled'
        /\ written' = {}
        /\ accounts # <<>> => Len(sessionWarnings') = Len(accounts)

C34_NoSessionSkipsRun == []C34_Returned /\ [][C34_AtSessions]_vars

C34_Witness ==
    /\ NoSessionForAnyAccount
    /\ Len(accounts) = 2
    /\ sessionWarnings[1].warning = "Failed to assume scanner role"
    /\ sessionWarnings[2].warning = "Failed to verify scanner role assumption"
    /\ scanners # <<>>

(***************************************************************************)
(* C35.  Every record the output phase writes for an account pairs the     *)
(* account's ID with that account's own name and with exactly that         *)
(* account's results, whichever output type is chosen and however many     *)
(* accounts the run has.  (The html report is one file for all accounts    *)
(* and carries no per-account record.)                                     *)
(***************************************************************************)
NameOf(id) ==
    LET k == CHOOSE j \in 1..Len(accounts) : accounts[j].ID = id
    IN  accounts[k].Name

AccountRecords == {w \in written : w.key \in DOMAIN accountResults}

C35_RecordPairsOwnNameAndResults ==
    pc = "done" =>
        \A w \in AccountRecords :
            /\ w.data.AccountID = w.key
            /\ w.data.AccountName = NameOf(w.key)
            /\ w.data.Results = accountResults[w.key].Results
====
